---------------------------- MODULE Spec2Model ----------------------------
(***************************************************************************)
(* Nexus-9 kinematic simulation (KinematicSimulation.tsx): the joint       *)
(* spring-damper integrator driven by the animation-frame loop, the UI     *)
(* commands (sliders, play/pause, reset, payload), and the evaluation      *)
(* effect (forward kinematics, gravity moments, bending stress, safety     *)
(* factor, trajectory trail).                                              *)
(*                                                                         *)
(* Numbers.  The program computes in IEEE doubles; the model computes in   *)
(* fixed point with the units below and rounds to nearest after every      *)
(* product that is rescaled.                                               *)
(*   angle, targetAngle      1/100 degree                                  *)
(*   velocity                1/100 degree per second                       *)
(*   time, dt                millisecond                                   *)
(*   matrix rotation entry   1/10000                                       *)
(*   position, length        1/10000 metre (0.1 mm)                        *)
(*   mass                    1/10 kg                                       *)
(*   torque                  1/100 N.m                                     *)
(*   stress                  kPa (1/1000 MPa)                              *)
(*   safety factor           1/100                                         *)
(***************************************************************************)
EXTENDS Integers, Sequences, FiniteSets, TLC

VARIABLES
    joints,         \* useState<JointState[]>: 1..10 -> JointState record
    loadMass,       \* useState(5.0)
    isPlaying,      \* useState(false)
    isPlayingRef,   \* useRef(isPlaying), read by the animation loop
    timeRef,        \* useRef(0): accumulated animation time
    trajectory,     \* useState<Vector3[]>([])
    precisePos,     \* useState(null): end effector in mm, 2 decimals
    reach,          \* useState(0)
    stressResults,  \* useState<StressResult[]>([])
    jointTorques,   \* useState<Record<string, number>>({})
    dirty,          \* a render is committed whose evaluation effect has not run yet
    ticks,          \* animation frames executed so far
    cmds,           \* user commands executed so far
    held,           \* the joints as they were when the targets were last changed, and the ticks since
    lastOp,         \* the operation that produced this state
    activeTab,      \* App: useState<Tab>; KinematicSimulation is rendered on Tab.KINEMATICS only
    camera,         \* useState({ azim: 45, elev: 20, scale: 300, panX: 0, panY: 0 })
    pointer,        \* interactionMode.current: "none" (not dragging), "rotate" or "pan"
    display,        \* showStressMap, showFrames
    frames,         \* animationFrameRef.current and the browser's pending frame callbacks
    analysis,       \* the external analysis: client, pending calls, isSimulating/aiInsight, loading/generatedRisk
    exported,       \* the file written by the last exportData, parsed back
    mounts          \* how many times KinematicSimulation has been mounted

vars == << joints, loadMass, isPlaying, isPlayingRef, timeRef, trajectory,
           precisePos, reach, stressResults, jointTorques, dirty, ticks, cmds,
           held, lastOp, activeTab, camera, pointer, display, frames, analysis,
           exported, mounts >>

\* everything outside the kinematic state except the frame scheduler
viewVars == << activeTab, camera, pointer, display, analysis, exported, mounts >>

---------------------------------------------------------------------------
(* Fixed-point scales *)

AngScale  == 100      \* angle units per degree
TrigScale == 10000    \* rotation-matrix units per 1.0; position units per metre
MassScale == 10       \* mass units per kg

(* Arithmetic helpers *)

Abs(x) == IF x < 0 THEN -x ELSE x

Min(a, b) == IF a < b THEN a ELSE b

Max(a, b) == IF a > b THEN a ELSE b

\* a / b rounded to the nearest integer, halves away from zero (b > 0)
Rnd(a, b) == IF a >= 0 THEN (a + b \div 2) \div b
                        ELSE -(((-a) + b \div 2) \div b)

RECURSIVE SqrtIter(_, _, _)
SqrtIter(n, lo, hi) ==
    IF lo >= hi THEN lo
    ELSE LET mid == (lo + hi + 1) \div 2
         IN  IF mid * mid <= n THEN SqrtIter(n, mid, hi)
                               ELSE SqrtIter(n, lo, mid - 1)

\* Math.sqrt on a non-negative integer, rounded to the nearest integer
Sqrt(n) ==
    LET r == SqrtIter(n, 0, 46340)
    IN  IF r < 46340 /\ (n - r * r) > r THEN r + 1 ELSE r

---------------------------------------------------------------------------
(* Trigonometry: Math.sin / Math.cos of an angle given in 1/100 degree,     *)
(* result in 1/TrigScale.  The argument is reduced to [0, 45] degrees and   *)
(* the Taylor polynomials are evaluated in 1/10000 radian.                  *)

\* degrees (1/100) to radians (1/10000): deg * PI / 180, for 0 <= d <= 4500
toRad(d) == Rnd(d * 17453, 10000)

\* sin x for 0 <= x <= PI/4 (x in 1/10000 rad)
SinPoly(x) ==
    LET x2 == Rnd(x * x, 10000)
        x3 == Rnd(x * x2, 10000)
        x5 == Rnd(x3 * x2, 10000)
    IN  x - Rnd(x3, 6) + Rnd(x5, 120)

\* cos x for 0 <= x <= PI/4 (x in 1/10000 rad)
CosPoly(x) ==
    LET x2 == Rnd(x * x, 10000)
        x4 == Rnd(x2 * x2, 10000)
        x6 == Rnd(x4 * x2, 10000)
    IN  10000 - Rnd(x2, 2) + Rnd(x4, 24) - Rnd(x6, 720)

\* sin of d, 0 <= d <= 9000 (1/100 degree)
SinQ(d) == IF d <= 4500 THEN SinPoly(toRad(d)) ELSE CosPoly(toRad(9000 - d))

\* sin of d, 0 <= d < 36000
SinTurn(d) ==
    IF d <= 9000 THEN SinQ(d)
    ELSE IF d <= 18000 THEN SinQ(18000 - d)
    ELSE IF d <= 27000 THEN -SinQ(d - 18000)
    ELSE -SinQ(36000 - d)

SinDeg(d) == SinTurn(d % 36000)

CosDeg(d) == SinTurn((d + 9000) % 36000)

\* Math.sin of an angle in 1/1000 radian (the animation phase): converted
\* to 1/100 degree (x * 180 / PI) one turn at a time
SinMilliRad(x) ==
    LET turn == x % 6283
    IN  SinDeg(Rnd(turn * 36000, 6283))

---------------------------------------------------------------------------
(* Joints: the initial useState array.  Index i here is array index i-1.   *)

Joint(id, angle, lo, hi, axis, group) ==
    [ id |-> id, angle |-> angle * AngScale, targetAngle |-> angle * AngScale,
      velocity |-> 0, min |-> lo * AngScale, max |-> hi * AngScale,
      axis |-> axis, group |-> group ]

InitialJoints ==
    << Joint("j1",   0,    -90,  90,  "z", "Shoulder"),
       Joint("j2",   0,    -90,  90,  "y", "Shoulder"),
       Joint("j3",   0,    -45,  45,  "x", "Shoulder"),
       Joint("j4",   -180, -270, -90, "z", "Elbow"),
       Joint("j5",   -180, -270, -90, "y", "Elbow"),
       Joint("j6",   0,    -45,  45,  "x", "Elbow"),
       Joint("j7_x", 0,    -45,  45,  "x", "Wrist"),
       Joint("j7_y", 0,    -45,  45,  "y", "Wrist"),
       Joint("j7_z", 0,    -45,  45,  "z", "Wrist"),
       Joint("j9",   50,   0,    100, "x", "Gripper") >>

JointIdx == 1..10

---------------------------------------------------------------------------
(* Physics and animation loop: animate(time)                                *)

stiffness == 120
damping   == 15
DtCapMs   == 100

\* twice the heuristic inertia: 2.5 Shoulder, 1.5 Elbow, 0.5 Wrist, 1.0 otherwise
Inertia2(group) ==
    IF group = "Shoulder" THEN 5
    ELSE IF group = "Elbow" THEN 3
    ELSE IF group = "Wrist" THEN 1
    ELSE 2

\* variant: the cap written as 0.2 s
ClampDtLoose(delta) == IF delta < 200 THEN delta ELSE 200

\* const dt = Math.min((time - lastTime) / 1000, 0.1), in ms
ClampDt(delta) == Min(delta, DtCapMs)

\* variant: the amplitude is 0.65 of the range
AnimationTargetWide(j, i, t) ==
    LET amp    == Rnd((j.max - j.min) * 65, 100)
        center == Rnd(j.max + j.min, 2)
        phase  == Rnd(t * 3, 2) + i * 500
    IN  center + Rnd(SinMilliRad(phase) * amp, TrigScale)

\* the sinusoid written over the target while playing; i is the array index
AnimationTarget(j, i, t) ==
    LET amp    == Rnd((j.max - j.min) * 15, 100)
        center == Rnd(j.max + j.min, 2)
        phase  == Rnd(t * 3, 2) + i * 500
    IN  center + Rnd(SinMilliRad(phase) * amp, TrigScale)

\* acceleration * dt, with acceleration = (stiffness*error - damping*velocity) / inertia
\* (the factors 2/inertia2 and dt/1000 are folded into one rounded quotient)
DeltaV(error, velocity, group, dt) ==
    Rnd(((stiffness \div 5) * error - (damping \div 5) * velocity) * dt,
        100 * Inertia2(group))

\* variant: explicit Euler, the angle advances with the velocity of the
\* previous frame
StepJointExplicit(j, i, playing, t, dt) ==
    LET target      == IF playing /\ j.group # "Gripper"
                       THEN AnimationTarget(j, i, t)
                       ELSE j.targetAngle
        error       == target - j.angle
        newVelocity == j.velocity + DeltaV(error, j.velocity, j.group, dt)
        newAngle    == j.angle + Rnd(j.velocity * dt, 1000)
    IN  [j EXCEPT !.angle = newAngle, !.velocity = newVelocity,
                  !.targetAngle = target]

\* variant: the animated target drives the step but is not written back
StepJointHoldTarget(j, i, playing, t, dt) ==
    LET target      == IF playing /\ j.group # "Gripper"
                       THEN AnimationTarget(j, i, t)
                       ELSE j.targetAngle
        error       == target - j.angle
        newVelocity == j.velocity + DeltaV(error, j.velocity, j.group, dt)
        newAngle    == j.angle + Rnd(newVelocity * dt, 1000)
    IN  [j EXCEPT !.angle = newAngle, !.velocity = newVelocity]

\* variant: outside animate mode the target written back is the centre of
\* the range
StepJointRecentre(j, i, playing, t, dt) ==
    LET target      == IF playing /\ j.group # "Gripper"
                       THEN AnimationTarget(j, i, t)
                       ELSE j.targetAngle
        error       == target - j.angle
        newVelocity == j.velocity + DeltaV(error, j.velocity, j.group, dt)
        newAngle    == j.angle + Rnd(newVelocity * dt, 1000)
    IN  [j EXCEPT !.angle = newAngle, !.velocity = newVelocity,
                  !.targetAngle = IF playing \/ j.group = "Gripper" THEN target
                                  ELSE Rnd(j.max + j.min, 2)]

\* one element of prevJoints.map((j, i) => ...)
StepJoint(j, i, playing, t, dt) ==
    LET target      == IF playing /\ j.group # "Gripper"
                       THEN AnimationTarget(j, i, t)
                       ELSE j.targetAngle
        error       == target - j.angle
        newVelocity == j.velocity + DeltaV(error, j.velocity, j.group, dt)
        newAngle    == j.angle + Rnd(newVelocity * dt, 1000)
    IN  [j EXCEPT !.angle = newAngle, !.velocity = newVelocity,
                  !.targetAngle = target]

\* timeRef.current after "if (isPlayingRef.current) timeRef.current += dt"
AdvanceTime(playing, t, dt) == IF playing THEN t + dt ELSE t

\* the joints after one frame whose wall-clock delta is delta ms
AnimateJoints(js, playing, t, delta) ==
    LET dt == ClampDt(delta)
        t2 == AdvanceTime(playing, t, dt)
    IN  [i \in JointIdx |-> StepJoint(js[i], i - 1, playing, t2, dt)]

\* what "held" remembers: error and velocity of every joint
Snapshot(js) == [i \in JointIdx |->
                    [e0 |-> js[i].angle - js[i].targetAngle, v0 |-> js[i].velocity]]

---------------------------------------------------------------------------
(* Link table and material                                                  *)

AL6061_YIELD_STRENGTH == 276    \* MPa
GRAVITY == 981                  \* 9.81 m/s^2 in 1/100

\* length in 0.1 mm, mass in 0.1 kg, od and thickness in 0.5 mm, cogRatio in percent
LINKS ==
    [ UPPER   |-> [length |-> 4500, mass |-> 15, od |-> 100, thickness |-> 3, cogRatio |-> 50],
      FOREARM |-> [length |-> 3000, mass |-> 15, od |-> 80,  thickness |-> 2, cogRatio |-> 50],
      HAND    |-> [length |-> 1500, mass |-> 10, od |-> 80,  thickness |-> 2, cogRatio |-> 50] ]

---------------------------------------------------------------------------
(* Math helpers: 4x4 homogeneous transforms as tuples of rows               *)

identity ==
    << <<TrigScale, 0, 0, 0>>,
       <<0, TrigScale, 0, 0>>,
       <<0, 0, TrigScale, 0>>,
       <<0, 0, 0, TrigScale>> >>

\* result[r][c] += m1[r][k] * m2[k][c] for k = 0..3
matrixCell(m1, m2, r, c) ==
    Rnd(m1[r][1] * m2[1][c] + m1[r][2] * m2[2][c]
        + m1[r][3] * m2[3][c] + m1[r][4] * m2[4][c], TrigScale)

matrixRow(m1, m2, r) ==
    << matrixCell(m1, m2, r, 1), matrixCell(m1, m2, r, 2),
       matrixCell(m1, m2, r, 3), matrixCell(m1, m2, r, 4) >>

multiplyMatrices(m1, m2) ==
    << matrixRow(m1, m2, 1), matrixRow(m1, m2, 2),
       matrixRow(m1, m2, 3), matrixRow(m1, m2, 4) >>

\* the argument is the joint angle in 1/100 degree (toRad is applied inside CosDeg/SinDeg)
rotateX(theta) ==
    LET c == CosDeg(theta)
        s == SinDeg(theta)
    IN  << <<TrigScale, 0, 0, 0>>,
           <<0, c, -s, 0>>,
           <<0, s, c, 0>>,
           <<0, 0, 0, TrigScale>> >>

rotateY(theta) ==
    LET c == CosDeg(theta)
        s == SinDeg(theta)
    IN  << <<c, 0, s, 0>>,
           <<0, TrigScale, 0, 0>>,
           <<-s, 0, c, 0>>,
           <<0, 0, 0, TrigScale>> >>

\* variant: the yaw is dropped
rotateNone(theta) == identity

rotateZ(theta) ==
    LET c == CosDeg(theta)
        s == SinDeg(theta)
    IN  << <<c, -s, 0, 0>>,
           <<s, c, 0, 0>>,
           <<0, 0, TrigScale, 0>>,
           <<0, 0, 0, TrigScale>> >>

\* variant: the link length placed on the Y translation
translateAlongY(x, y, z) ==
    << <<TrigScale, 0, 0, y>>,
       <<0, TrigScale, 0, x>>,
       <<0, 0, TrigScale, z>>,
       <<0, 0, 0, TrigScale>> >>

translate(x, y, z) ==
    << <<TrigScale, 0, 0, x>>,
       <<0, TrigScale, 0, y>>,
       <<0, 0, TrigScale, z>>,
       <<0, 0, 0, TrigScale>> >>

Vec(x, y, z) == [x |-> x, y |-> y, z |-> z]

extractFrame(m, id) ==
    [ id    |-> id,
      pos   |-> Vec(m[1][4], m[2][4], m[3][4]),
      xAxis |-> Vec(m[1][1], m[2][1], m[3][1]),
      yAxis |-> Vec(m[1][2], m[2][2], m[3][2]),
      zAxis |-> Vec(m[1][3], m[2][3], m[3][3]) ]

\* area moment of inertia of a hollow circle, in (0.5 mm)^4; PI is 355/113
calculateInertia(od, thickness) ==
    LET id == od - 2 * thickness
    IN  Rnd(Rnd(od * od * od * od - id * id * id * id, 64) * 355, 113)

crossProduct(a, b) ==
    Vec(a.y * b.z - a.z * b.y,
        a.z * b.x - a.x * b.z,
        a.x * b.y - a.y * b.x)

magnitude(v) == Sqrt(v.x * v.x + v.y * v.y + v.z * v.z)

\* t in percent
lerpVector(v1, v2, t) ==
    Vec(v1.x + Rnd((v2.x - v1.x) * t, 100),
        v1.y + Rnd((v2.y - v1.y) * t, 100),
        v1.z + Rnd((v2.z - v1.z) * t, 100))

\* the hue of the hsl colour, in 1/100; the stress is in kPa
getStressColor(stressMPa) ==
    LET ratio == Min(Rnd(stressMPa * 10, AL6061_YIELD_STRENGTH), 12000)
    IN  Max(0, 24000 - Rnd(ratio * 240, 100))

---------------------------------------------------------------------------
(* Evaluation effect, part 1: forward kinematics.                           *)
(* Order: Rotate Z -> Rotate Y -> Rotate X -> Translate X (link length);    *)
(* the wrist applies X -> Y -> Z.  a is the tuple of the ten joint angles.  *)

\* the twelve factors in the order the code multiplies them into T
transforms(a) ==
    << rotateZ(a[1]), rotateY(a[2]), rotateX(a[3]),
       translate(LINKS.UPPER.length, 0, 0),
       rotateZ(a[4]), rotateY(a[5]), rotateX(a[6]),
       translate(LINKS.FOREARM.length, 0, 0),
       rotateX(a[7]), rotateY(a[8]), rotateZ(a[9]),
       translate(LINKS.HAND.length, 0, 0) >>

\* the successive values of T: T = multiplyMatrices(T, ms[n]) for n = 1, 2, ...
RECURSIVE chain(_, _, _)
chain(ms, T, n) ==
    IF n > Len(ms) THEN << T >>
    ELSE << T >> \o chain(ms, multiplyMatrices(T, ms[n]), n + 1)

\* the frames extracted along the chain; P[k+1] is T after k factors
framesOf(P) ==
    [ base     |-> extractFrame(P[1], 0),
      frameJ1  |-> extractFrame(P[2], 1),
      frameJ2  |-> extractFrame(P[3], 2),
      frameJ3  |-> extractFrame(P[4], 3),
      frameJ4  |-> extractFrame(P[6], 4),
      frameJ5  |-> extractFrame(P[7], 5),
      frameJ6  |-> extractFrame(P[8], 6),
      frameJ7X |-> extractFrame(P[10], 7),
      frameJ7Y |-> extractFrame(P[11], 8),
      frameJ7Z |-> extractFrame(P[12], 9),
      endEffectorFrame |-> extractFrame(P[13], 10) ]

ForwardKinematics(a) == framesOf(chain(transforms(a), identity, 1))

\* variant: the angle is clamped to the joint's range before it is used
ClampedAngles(js) == [i \in JointIdx |-> Max(js[i].min, Min(js[i].max, js[i].angle))]

Angles(js) == [i \in JointIdx |-> js[i].angle]

---------------------------------------------------------------------------
(* Evaluation effect, part 2: torque and stress                             *)

\* the summed moment vector of calculateMoment, in 1e-7 N.m
\* (r in 0.1 mm times F in 1/1000 N)
addVec(a, b) == Vec(a.x + b.x, a.y + b.y, a.z + b.z)

\* crossProduct(r, F) of one load: r = pos - pivot, F = (0, 0, -mass * GRAVITY)
momentOf(pivot, L) ==
    crossProduct(Vec(L.pos.x - pivot.x, L.pos.y - pivot.y, L.pos.z - pivot.z),
                 Vec(0, 0, -(L.mass * GRAVITY)))

RECURSIVE SumMoments(_, _, _)
SumMoments(pivot, loads, n) ==
    IF n = 0 THEN Vec(0, 0, 0)
    ELSE addVec(SumMoments(pivot, loads, n - 1), momentOf(pivot, loads[n]))

totalMoment(pivot, loads) == SumMoments(pivot, loads, Len(loads))

\* totalM in 1/100 N.m
momentNm(totalM) ==
    Vec(Rnd(totalM.x, 100000), Rnd(totalM.y, 100000), Rnd(totalM.z, 100000))

\* magnitude(totalM), in 1/100 N.m
momentMagnitude(totalM) == magnitude(momentNm(totalM))

calculateMoment(pivot, loads) == momentMagnitude(totalMoment(pivot, loads))

\* variant: the payload saturates at 5 kg
loadSetSaturated(fk, mass) ==
    << [mass |-> LINKS.UPPER.mass,
        pos |-> lerpVector(fk.frameJ3.pos, fk.frameJ4.pos, LINKS.UPPER.cogRatio)],
       [mass |-> LINKS.FOREARM.mass,
        pos |-> lerpVector(fk.frameJ6.pos, fk.frameJ7X.pos, LINKS.FOREARM.cogRatio)],
       [mass |-> LINKS.HAND.mass,
        pos |-> lerpVector(fk.frameJ7Z.pos, fk.endEffectorFrame.pos, LINKS.HAND.cogRatio)],
       [mass |-> IF mass < 50 THEN mass ELSE 50,
        pos |-> fk.endEffectorFrame.pos] >>

loadSet(fk, mass) ==
    LET endEffector == fk.endEffectorFrame.pos
        cogUpper == lerpVector(fk.frameJ3.pos, fk.frameJ4.pos, LINKS.UPPER.cogRatio)
        cogFore  == lerpVector(fk.frameJ6.pos, fk.frameJ7X.pos, LINKS.FOREARM.cogRatio)
        cogHand  == lerpVector(fk.frameJ7Z.pos, endEffector, LINKS.HAND.cogRatio)
    IN  << [mass |-> LINKS.UPPER.mass,   pos |-> cogUpper],
           [mass |-> LINKS.FOREARM.mass, pos |-> cogFore],
           [mass |-> LINKS.HAND.mass,    pos |-> cogHand],
           [mass |-> mass,               pos |-> endEffector] >>

\* the moments computed at the three pivots, before the map is filled
momentsAt(fk, loads) ==
    [ j2   |-> calculateMoment(fk.frameJ2.pos, loads),
      j5   |-> calculateMoment(fk.frameJ5.pos, SubSeq(loads, 2, 4)),
      j7_y |-> calculateMoment(fk.frameJ7Y.pos, SubSeq(loads, 3, 4)) ]

pivotMoments(fk, mass) == momentsAt(fk, loadSet(fk, mass))

PivotIds == {"j2", "j5", "j7_y"}

JointIds == {InitialJoints[i].id : i \in JointIdx}

\* !torqueMap[j.id]: undefined, 0 and NaN are falsy
Falsy(t) == t = 0

SmallTorque == 10    \* the value 0.1 filled in "for UI"

\* variant: only the joints without a computed moment are filled
fillMissingOnly(m) ==
    [id \in JointIds |-> IF id \in PivotIds THEN m[id] ELSE SmallTorque]

\* joints.forEach(j => { if(!torqueMap[j.id]) torqueMap[j.id] = 0.1; })
fillTorques(m) ==
    [id \in JointIds |->
        IF id \in PivotIds /\ ~Falsy(m[id]) THEN m[id] ELSE SmallTorque]

\* torqueMap after the fill
torqueMap(fk, mass) == fillTorques(pivotMoments(fk, mass))

\* ((torque * c) / I) / 1e6, in kPa
calcStress(torque, link) ==
    LET I == calculateInertia(link.od, link.thickness)
        c == link.od \div 2
    IN  Rnd(torque * Rnd(c * 40000000, I), 500)

Infinity == 2000000000

\* variant: the ratio upside down, stress / AL6061_YIELD_STRENGTH
stressRatio(stress) == Rnd(stress, AL6061_YIELD_STRENGTH * 10)

\* AL6061_YIELD_STRENGTH / stress, in 1/100; x / 0 is Infinity for x > 0
safetyFactor(stress) ==
    IF stress = 0 THEN Infinity
    ELSE Rnd(AL6061_YIELD_STRENGTH * 100000, stress)

stressRecord(location, torque, stress) ==
    [ location |-> location, torqueStatic |-> torque, torqueDynamic |-> 0,
      stressMPa |-> stress, safetyFactor |-> safetyFactor(stress),
      color |-> getStressColor(stress) ]

StressEntry(location, torque, link) ==
    stressRecord(location, torque, calcStress(torque, link))

stressOf(tm) ==
    << StressEntry("Shoulder", tm["j2"],   LINKS.UPPER),
       StressEntry("Elbow",    tm["j5"],   LINKS.FOREARM),
       StressEntry("Wrist",    tm["j7_y"], LINKS.HAND) >>

---------------------------------------------------------------------------
(* Evaluation effect, part 3: metrics and trajectory                        *)

\* (v * 1000).toFixed(2): millimetres with two decimals, kept as 1/100 mm
toFixed2mm(v) == v * 10

precisePosOf(ee) == [x |-> toFixed2mm(ee.x), y |-> toFixed2mm(ee.y), z |-> toFixed2mm(ee.z)]

distance(e, b) == magnitude(Vec(e.x - b.x, e.y - b.y, e.z - b.z))

reachOf(fk) == distance(fk.endEffectorFrame.pos, fk.base.pos)

TrailMax == 150
MoveEps  == 50     \* 0.005 m

\* variant: no slice
KeepAll(s, n) == s

\* s.slice(-n)
LastN(s, n) == IF Len(s) <= n THEN s ELSE SubSeq(s, Len(s) - n + 1, Len(s))

\* the setTrajectory updater
updateTrajectory(prev, endEffector) ==
    IF Len(prev) > 0
       /\ Abs(prev[Len(prev)].x - endEffector.x) < MoveEps
       /\ Abs(prev[Len(prev)].y - endEffector.y) < MoveEps
    THEN prev
    ELSE LastN(Append(prev, endEffector), TrailMax)

---------------------------------------------------------------------------
(* The view around the kinematic state: tabs, camera, frame scheduler        *)

\* enum Tab
Tabs == {"Overview", "Specs", "Kinematics", "BOM"}

\* renderContent renders <KinematicSimulation /> for Tab.KINEMATICS only
mounted == activeTab = "Kinematics"

CamScale == 10      \* camera units per degree (azim, elev) and per unit of scale

InitialCamera ==
    [azim |-> 45 * CamScale, elev |-> 20 * CamScale, scale |-> 300 * CamScale,
     panX |-> 0, panY |-> 0]

InitialDisplay == [showStressMap |-> TRUE, showFrames |-> TRUE]

\* requestAnimationFrame(animate): a new callback id, stored in animationFrameRef
requestAnimationFrame(f) ==
    [ref |-> f.next, pending |-> f.pending \cup {f.next}, next |-> f.next + 1]

\* the browser takes the callback id off its list and runs it
runFrame(f, id) == [f EXCEPT !.pending = @ \ {id}]

\* variant: the cleanup cancels the id that was current one frame earlier
cancelPreviousFrame(f, id) == [f EXCEPT !.pending = @ \ {id - 1}]

\* cancelAnimationFrame(id)
cancelAnimationFrame(f, id) == [f EXCEPT !.pending = @ \ {id}]

NoFrames == [ref |-> 0, pending |-> {}, next |-> 1]

---------------------------------------------------------------------------
(* services/geminiService.ts                                                 *)

RiskFallback    == "API Key missing. Using cached analysis..."
RiskError       == "Error generating analysis. Please check API Key configuration."
InsightFallback == "API Key missing. Simulation Insight"
InsightError    == "Error generating insight."
ServiceText     == "result.response.text()"

\* const genAI = apiKey ? new GoogleGenAI({ apiKey }) : null
Clients == {"null", "client"}

\* what the remote call does: it answers, or something inside the try block throws
ServiceOutcomes == {"text", "throws"}

Return(v) == [kind |-> "return", value |-> v, contacted |-> TRUE, logged |-> FALSE]
Throw(v)  == [kind |-> "throw", value |-> v, contacted |-> TRUE, logged |-> FALSE]

\* the body of the try block: getGenerativeModel, generateContent, response.text()
callService(service) ==
    IF service = "throws" THEN Throw("error") ELSE Return(ServiceText)

\* variant: the catch block throws the error again
catchAndRethrow(r, text, log) == r

\* catch (error) { [console.error(...);] return text; }
catchAndReturn(r, text, log) ==
    IF r.kind = "throw" THEN [Return(text) EXCEPT !.logged = log] ELSE r

\* how the promise of an async function settles
settle(r) ==
    [state |-> IF r.kind = "throw" THEN "rejected" ELSE "fulfilled",
     value |-> r.value, contacted |-> r.contacted, logged |-> r.logged]

analyzeRisk(client, service) ==
    IF client = "null"
    THEN settle([Return(RiskFallback) EXCEPT !.contacted = FALSE])
    ELSE settle(catchAndReturn(callService(service), RiskError, TRUE))

generateSimulationInterpretation(client, service) ==
    IF client = "null"
    THEN settle([Return(InsightFallback) EXCEPT !.contacted = FALSE])
    ELSE settle(catchAndReturn(callService(service), InsightError, FALSE))

\* the analysis state of a freshly mounted KinematicSimulation (isSimulating,
\* aiInsight) and AnalysisView (loading, generatedRisk); insightCall and riskCall
\* are the promises in flight, insightOwner the mount that started the call
InitialAnalysis(client) ==
    [client |-> client,
     isSimulating |-> FALSE, aiInsight |-> "", insightCall |-> "none", insightOwner |-> 0,
     loading |-> FALSE, generatedRisk |-> "null", riskCall |-> "none",
     last |-> settle(Return(""))]

\* the variables outside the kinematic state, after KinematicSimulation mounted
MountedView(client) ==
    /\ activeTab = "Kinematics"
    /\ camera = InitialCamera
    /\ pointer = "none"
    /\ display = InitialDisplay
    /\ frames = requestAnimationFrame(NoFrames)
    /\ analysis = InitialAnalysis(client)
    /\ exported = << >>
    /\ mounts = 1

---------------------------------------------------------------------------
(* exportData: JSON.stringify(..., null, 2), and JSON.parse of the file      *)
(* A number's text is a sequence of characters; decimals is the number of    *)
(* decimal places the model's unit of that number has.                       *)

DigitChars == << "0", "1", "2", "3", "4", "5", "6", "7", "8", "9" >>

NullText == << "n", "u", "l", "l" >>

RECURSIVE Pow10(_)
Pow10(d) == IF d = 0 THEN 1 ELSE 10 * Pow10(d - 1)

RECURSIVE digitsOf(_)
digitsOf(n) ==
    IF n < 10 THEN << DigitChars[n + 1] >>
    ELSE Append(digitsOf(n \div 10), DigitChars[(n % 10) + 1])

\* the d digits after the decimal point
RECURSIVE fractionDigits(_, _)
fractionDigits(f, d) ==
    IF d = 0 THEN << >>
    ELSE Append(fractionDigits(f \div 10, d - 1), DigitChars[(f % 10) + 1])

RECURSIVE stripZeros(_)
stripZeros(s) ==
    IF s # << >> /\ s[Len(s)] = "0" THEN stripZeros(SubSeq(s, 1, Len(s) - 1)) ELSE s

signText(v) == IF v < 0 THEN << "-" >> ELSE << >>

pointText(frac) == IF frac = << >> THEN << >> ELSE << "." >> \o frac

\* Number.prototype.toFixed(d) of a value given in units of 10^-d
toFixed(v, d) ==
    signText(v) \o digitsOf(Abs(v) \div Pow10(d))
                \o pointText(fractionDigits(Abs(v) % Pow10(d), d))

\* Infinity, -Infinity and NaN are the numbers that are not finite
isFinite(v) == Abs(v) < Infinity

\* JSON.stringify of a number: the shortest decimal text that reads back as the
\* same number, and null for a number that is not finite
numberToJSON(v, decimals) ==
    IF ~isFinite(v) THEN NullText
    ELSE signText(v) \o digitsOf(Abs(v) \div Pow10(decimals))
            \o pointText(stripZeros(fractionDigits(Abs(v) % Pow10(decimals), decimals)))

digitValue(c) == CHOOSE n \in 0..9 : DigitChars[n + 1] = c

RECURSIVE digitsValue(_, _)
digitsValue(s, acc) ==
    IF s = << >> THEN acc ELSE digitsValue(Tail(s), acc * 10 + digitValue(Head(s)))

\* the index of the decimal point, or one past the end
pointAt(s) ==
    IF \E k \in 1..Len(s) : s[k] = "." THEN CHOOSE k \in 1..Len(s) : s[k] = "."
    ELSE Len(s) + 1

padRight(frac, d) == frac \o [k \in 1..(d - Len(frac)) |-> "0"]

unsignedValue(s, p, d) ==
    digitsValue(SubSeq(s, 1, p - 1) \o padRight(SubSeq(s, p + 1, Len(s)), d), 0)

\* JSON.parse of a number text, in units of 10^-decimals; << >> stands for null
JSONparseNumber(s, decimals) ==
    IF s = NullText THEN << >>
    ELSE IF Head(s) = "-"
         THEN << 0 - unsignedValue(Tail(s), pointAt(Tail(s)), decimals) >>
         ELSE << unsignedValue(s, pointAt(s), decimals) >>

jointToJSON(j) ==
    [id |-> j.id, group |-> j.group, axis |-> j.axis,
     angle |-> numberToJSON(j.angle, 2),
     targetAngle |-> numberToJSON(j.targetAngle, 2),
     velocity |-> numberToJSON(j.velocity, 2),
     min |-> numberToJSON(j.min, 2), max |-> numberToJSON(j.max, 2)]

stressToJSON(r) ==
    [location |-> r.location,
     torqueStatic |-> numberToJSON(r.torqueStatic, 2),
     torqueDynamic |-> numberToJSON(r.torqueDynamic, 2),
     stressMPa |-> numberToJSON(r.stressMPa, 3),
     safetyFactor |-> numberToJSON(r.safetyFactor, 2)]

pointToJSON(v) ==
    [x |-> numberToJSON(v.x, 4), y |-> numberToJSON(v.y, 4), z |-> numberToJSON(v.z, 4)]

\* the text of the exported file, field by field: configuration: joints,
\* metrics: { endEffector, reach, stressData, torques }, trajectory
JSONstringify(js, pp, r, sr, jt, tr) ==
    [configuration |-> [i \in DOMAIN js |-> jointToJSON(js[i])],
     endEffector   |-> pp,
     reach         |-> toFixed(Rnd(r, 10), 3) \o << "m" >>,
     stressData    |-> [k \in DOMAIN sr |-> stressToJSON(sr[k])],
     torques       |-> [id \in DOMAIN jt |-> numberToJSON(jt[id], 2)],
     trajectory    |-> [k \in DOMAIN tr |-> pointToJSON(tr[k])]]

jointFromJSON(t) ==
    [id |-> t.id, group |-> t.group, axis |-> t.axis,
     angle |-> JSONparseNumber(t.angle, 2),
     targetAngle |-> JSONparseNumber(t.targetAngle, 2),
     velocity |-> JSONparseNumber(t.velocity, 2),
     min |-> JSONparseNumber(t.min, 2), max |-> JSONparseNumber(t.max, 2)]

stressFromJSON(t) ==
    [location |-> t.location,
     torqueStatic |-> JSONparseNumber(t.torqueStatic, 2),
     torqueDynamic |-> JSONparseNumber(t.torqueDynamic, 2),
     stressMPa |-> JSONparseNumber(t.stressMPa, 3),
     safetyFactor |-> JSONparseNumber(t.safetyFactor, 2)]

pointFromJSON(t) ==
    [x |-> JSONparseNumber(t.x, 4), y |-> JSONparseNumber(t.y, 4),
     z |-> JSONparseNumber(t.z, 4)]

\* JSON.parse of the exported file
JSONparse(doc) ==
    [configuration |-> [i \in DOMAIN doc.configuration |-> jointFromJSON(doc.configuration[i])],
     endEffector   |-> doc.endEffector,
     reach         |-> doc.reach,
     stressData    |-> [k \in DOMAIN doc.stressData |-> stressFromJSON(doc.stressData[k])],
     torques       |-> [id \in DOMAIN doc.torques |-> JSONparseNumber(doc.torques[id], 2)],
     trajectory    |-> [k \in DOMAIN doc.trajectory |-> pointFromJSON(doc.trajectory[k])]]

---------------------------------------------------------------------------
(* The component as a state machine                                         *)

MaxTicks == 3      \* animation frames explored
MaxCmds  == 2      \* user commands explored

\* wall-clock time between two frames, in ms: a 60 Hz frame and a 5 s gap
\* (a backgrounded tab)
WallDeltas == {16, 5000}

\* the joints whose slider is moved, one per group, and the value it is moved to
SliderJoints == {2, 5, 8, 10}

SliderValues(j) == {j.max}

\* payload slider, 0 .. 10 kg
LoadMasses == {0, 100}

Op(op, id, arg) == [op |-> op, id |-> id, arg |-> arg]

Init ==
    /\ joints = InitialJoints
    /\ loadMass = 50
    /\ isPlaying = FALSE
    /\ isPlayingRef = FALSE
    /\ timeRef = 0
    /\ trajectory = << >>
    /\ precisePos = << >>
    /\ reach = 0
    /\ stressResults = << >>
    /\ jointTorques = << >>
    /\ dirty = TRUE
    /\ ticks = 0
    /\ cmds = 0
    /\ held = [snap |-> Snapshot(InitialJoints), n |-> 0]
    /\ lastOp = Op("mount", "", 0)
    /\ MountedView("null")

\* what the setTrajectory updater did: 0 nothing, 1 appended, 2 appended and evicted
trailEvent(prev, endEffector) ==
    IF updateTrajectory(prev, endEffector) = prev THEN 0
    ELSE IF Len(prev) >= TrailMax THEN 2
    ELSE 1

\* what the effect hands to the five setters
effectResult(fk, tm, prev) ==
    [ precisePos    |-> << precisePosOf(fk.endEffectorFrame.pos) >>,
      reach         |-> reachOf(fk),
      jointTorques  |-> tm,
      stressResults |-> stressOf(tm),
      trajectory    |-> updateTrajectory(prev, fk.endEffectorFrame.pos),
      trailEvent    |-> trailEvent(prev, fk.endEffectorFrame.pos) ]

effectOf(fk, mass, prev) == effectResult(fk, torqueMap(fk, mass), prev)

evaluation(js, mass, prev) == effectOf(ForwardKinematics(Angles(js)), mass, prev)

\* the effect with dependencies [joints, camera, loadMass, ...]: it runs once
\* after every committed render in which one of them changed
Evaluate ==
    /\ dirty
    /\ \E r \in {evaluation(joints, loadMass, trajectory)} :
          /\ precisePos' = r.precisePos
          /\ reach' = r.reach
          /\ jointTorques' = r.jointTorques
          /\ stressResults' = r.stressResults
          /\ trajectory' = r.trajectory
          /\ lastOp' = Op("evaluate", "", r.trailEvent)
    /\ dirty' = FALSE
    /\ UNCHANGED << joints, loadMass, isPlaying, isPlayingRef, timeRef, ticks, cmds, held >>
    /\ UNCHANGED << viewVars, frames >>

\* one animation frame: animate(time) with time - lastTime = delta
TickWith(deltas, cap) ==
    /\ ~dirty
    /\ ticks < cap
    /\ \E id \in frames.pending : frames' = requestAnimationFrame(runFrame(frames, id))
    /\ \E delta \in deltas :
          /\ timeRef' = AdvanceTime(isPlayingRef, timeRef, ClampDt(delta))
          /\ joints' = AnimateJoints(joints, isPlayingRef, timeRef, delta)
          /\ lastOp' = Op("tick", "", delta)
    /\ held' = IF isPlayingRef THEN [snap |-> Snapshot(joints'), n |-> 0]
                               ELSE [held EXCEPT !.n = @ + 1]
    /\ dirty' = TRUE
    /\ ticks' = ticks + 1
    /\ UNCHANGED << loadMass, isPlaying, isPlayingRef, trajectory, precisePos,
                    reach, stressResults, jointTorques, cmds >>
    /\ UNCHANGED viewVars

Tick == TickWith(WallDeltas, MaxTicks)

\* variant: the slider places the joint at the value at once
sliderJointsSnap(js, id, val) ==
    [i \in JointIdx |-> IF js[i].id = id
                        THEN [js[i] EXCEPT !.targetAngle = val, !.angle = val,
                                           !.velocity = 0]
                        ELSE js[i]]

\* setJoints(prev => prev.map(j => j.id === id ? { ...j, targetAngle: val } : j))
sliderJoints(js, id, val) ==
    [i \in JointIdx |-> IF js[i].id = id THEN [js[i] EXCEPT !.targetAngle = val]
                                         ELSE js[i]]

handleSliderChange ==
    /\ ~dirty
    /\ cmds < MaxCmds
    /\ \E k \in SliderJoints : \E val \in SliderValues(joints[k]) :
          /\ joints' = sliderJoints(joints, joints[k].id, val)
          /\ lastOp' = Op("slider", joints[k].id, val)
    /\ held' = [snap |-> Snapshot(joints'), n |-> 0]
    /\ dirty' = TRUE
    /\ cmds' = cmds + 1
    /\ UNCHANGED << loadMass, isPlaying, isPlayingRef, timeRef, trajectory,
                    precisePos, reach, stressResults, jointTorques, ticks >>
    /\ UNCHANGED << viewVars, frames >>

\* variant: the ref is set by play and never cleared
syncLatched(ref, playing) == ref \/ playing

\* useEffect(() => { isPlayingRef.current = isPlaying; }, [isPlaying]): the value
\* of the ref after the render that a click caused has been committed
syncPlayingRef(ref, playing) == playing

\* onClick={() => setIsPlaying(!isPlaying)}
togglePlay ==
    /\ ~dirty
    /\ cmds < MaxCmds
    /\ isPlaying' = ~isPlaying
    /\ isPlayingRef' = syncPlayingRef(isPlayingRef, ~isPlaying)
    /\ lastOp' = Op(IF isPlaying THEN "pause" ELSE "play", "", 0)
    /\ cmds' = cmds + 1
    /\ UNCHANGED << joints, loadMass, timeRef, trajectory, precisePos, reach,
                    stressResults, jointTorques, dirty, ticks, held >>
    /\ UNCHANGED << viewVars, frames >>

resetAngle(id) ==
    IF id = "j4" \/ id = "j5" THEN -180 * AngScale
    ELSE IF id = "j9" THEN 50 * AngScale
    ELSE 0

\* variant: the velocity survives the reset
resetKeepVelocity(js) ==
    [i \in JointIdx |-> [js[i] EXCEPT !.angle = resetAngle(js[i].id),
                                      !.targetAngle = resetAngle(js[i].id)]]

resetJoints(js) ==
    [i \in JointIdx |-> [js[i] EXCEPT !.angle = resetAngle(js[i].id),
                                      !.targetAngle = resetAngle(js[i].id),
                                      !.velocity = 0]]

\* how many joints have a non-zero velocity
moving(js) == Cardinality({i \in JointIdx : js[i].velocity # 0})

resetSimulation ==
    /\ ~dirty
    /\ cmds < MaxCmds
    /\ isPlaying' = FALSE
    /\ isPlayingRef' = syncPlayingRef(isPlayingRef, FALSE)
    /\ joints' = resetJoints(joints)
    /\ trajectory' = << >>
    /\ held' = [snap |-> Snapshot(joints'), n |-> 0]
    /\ dirty' = TRUE
    /\ lastOp' = Op("reset", "", moving(joints))
    /\ cmds' = cmds + 1
    /\ UNCHANGED << loadMass, timeRef, precisePos, reach, stressResults,
                    jointTorques, ticks >>
    /\ UNCHANGED << viewVars, frames >>

\* onChange={(e) => setLoadMass(parseFloat(e.target.value))}
setLoadMass ==
    /\ ~dirty
    /\ cmds < MaxCmds
    /\ \E m \in LoadMasses :
          /\ loadMass' = m
          /\ lastOp' = Op("load", "", m)
    /\ dirty' = TRUE
    /\ cmds' = cmds + 1
    /\ UNCHANGED << joints, isPlaying, isPlayingRef, timeRef, trajectory,
                    precisePos, reach, stressResults, jointTorques, ticks, held >>
    /\ UNCHANGED << viewVars, frames >>

\* the JSON button: the file holds the state of the render the click was made
\* on.  That render may be the one a frame has just committed, whose
\* evaluation effect has not yet delivered its results (dirty).
exportData ==
    /\ cmds < MaxCmds
    /\ exported' = << JSONparse(JSONstringify(joints, precisePos, reach, stressResults,
                                              jointTorques, trajectory)) >>
    /\ lastOp' = Op("export", "", 0)
    /\ cmds' = cmds + 1
    /\ UNCHANGED << joints, loadMass, isPlaying, isPlayingRef, timeRef, trajectory,
                    precisePos, reach, stressResults, jointTorques, dirty, ticks, held >>
    /\ UNCHANGED << activeTab, camera, pointer, display, analysis, mounts, frames >>

Next ==
    \/ Evaluate
    \/ Tick
    \/ handleSliderChange
    \/ togglePlay
    \/ resetSimulation
    \/ setLoadMass

Spec == Init /\ [][Next]_vars

---------------------------------------------------------------------------
(* The evaluation as a pure function of the pose and the payload: every pose *)
(* of a small grid is mounted and evaluated once.                            *)

\* angles (1/100 degree) of j2, j4, j5 and j7_y on the grid; the others stay 0.
\* The angle is the integrator's state and is not clamped to [min, max];
\* for j4 and j5 the grid holds the reset value -180 and the literal zero.
PoseJ2 == {0, -9000, 4500}
PoseJ4 == {-18000, 0}
PoseJ5 == {-18000, -13500, -10000, 0}
PoseJ7Y == {0, 4500}

\* payloads, 0 .. 10 kg
EvalMasses == {0, 10, 50, 100}

poseAngle(i, a2, a4, a5, a8) ==
    IF i = 2 THEN a2
    ELSE IF i = 4 THEN a4
    ELSE IF i = 5 THEN a5
    ELSE IF i = 8 THEN a8
    ELSE IF i = 10 THEN InitialJoints[i].angle
    ELSE 0

poseJoints(a2, a4, a5, a8) ==
    [i \in JointIdx |->
        [InitialJoints[i] EXCEPT !.angle = poseAngle(i, a2, a4, a5, a8),
                                 !.targetAngle = poseAngle(i, a2, a4, a5, a8)]]

\* shoulder yaw and pitch both at a slider limit, everything else at its seed
PoseJ1 == {9000, -9000}

shoulderPose(a1, a2) ==
    [i \in JointIdx |->
        IF i = 1 THEN [InitialJoints[i] EXCEPT !.angle = a1, !.targetAngle = a1]
        ELSE IF i = 2 THEN [InitialJoints[i] EXCEPT !.angle = a2, !.targetAngle = a2]
        ELSE InitialJoints[i]]

Poses == {poseJoints(a2, a4, a5, a8) :
             a2 \in PoseJ2, a4 \in PoseJ4, a5 \in PoseJ5, a8 \in PoseJ7Y}
         \cup {shoulderPose(a1, 9000) : a1 \in PoseJ1}

InitEval ==
    /\ joints \in Poses
    /\ loadMass \in EvalMasses
    /\ isPlaying = FALSE
    /\ isPlayingRef = FALSE
    /\ timeRef = 0
    /\ trajectory = << >>
    /\ precisePos = << >>
    /\ reach = 0
    /\ stressResults = << >>
    /\ jointTorques = << >>
    /\ dirty = TRUE
    /\ ticks = 0
    /\ cmds = 0
    /\ held = [snap |-> Snapshot(joints), n |-> 0]
    /\ lastOp = Op("mount", "", 0)
    /\ MountedView("null")

NextEval == Evaluate

SpecEval == InitEval /\ [][NextEval]_vars

---------------------------------------------------------------------------
(* A long animated run: play has been pressed once after mount and the loop  *)
(* runs at a steady 30 frames per second.                                    *)

MaxTrailTicks == 230

TrailDeltas == {33}

InitPlaying ==
    /\ joints = InitialJoints
    /\ loadMass = 50
    /\ isPlaying = TRUE
    /\ isPlayingRef = TRUE
    /\ timeRef = 0
    /\ \E r \in {evaluation(InitialJoints, 50, << >>)} :
          /\ trajectory = r.trajectory
          /\ precisePos = r.precisePos
          /\ reach = r.reach
          /\ stressResults = r.stressResults
          /\ jointTorques = r.jointTorques
    /\ dirty = FALSE
    /\ ticks = 0
    /\ cmds = MaxCmds
    /\ held = [snap |-> Snapshot(InitialJoints), n |-> 0]
    /\ lastOp = Op("play", "", 0)
    /\ MountedView("null")

TickTrail == TickWith(TrailDeltas, MaxTrailTicks)

NextTrail == Evaluate \/ TickTrail

SpecTrail == InitPlaying /\ [][NextTrail]_vars

---------------------------------------------------------------------------
(* Camera gestures and the control buttons                                   *)

WheelDeltas == {100, -6000}                  \* e.deltaY of a wheel event
MouseDowns  == {[button |-> 0, shiftKey |-> FALSE], [button |-> 0, shiftKey |-> TRUE]}
MouseMoves  == {[dx |-> 40, dy |-> 200]}     \* pixels since lastMousePos
ControlButtons == {"Stress Map", "Joint Frames", "Reset Camera"}

\* variant: the scale follows the wheel without limits
zoomUnbounded(c, deltaY) ==
    [c EXCEPT !.scale = @ - deltaY * (CamScale \div 2)]

\* scale: Math.max(50, Math.min(3000, prev.scale - e.deltaY * zoomSensitivity))
zoom(c, deltaY) ==
    [c EXCEPT !.scale = Max(50 * CamScale, Min(3000 * CamScale, @ - deltaY * (CamScale \div 2)))]

onWheel ==
    /\ ~dirty
    /\ cmds < MaxCmds
    /\ \E deltaY \in WheelDeltas :
          /\ camera' = zoom(camera, deltaY)
          /\ lastOp' = Op("wheel", "", deltaY)
    /\ dirty' = TRUE
    /\ cmds' = cmds + 1
    /\ UNCHANGED << joints, loadMass, isPlaying, isPlayingRef, timeRef, trajectory,
                    precisePos, reach, stressResults, jointTorques, ticks, held >>
    /\ UNCHANGED << activeTab, pointer, display, analysis, exported, mounts, frames >>

\* interactionMode.current after a mouse-down on the canvas
modeOf(e) == IF e.button = 1 \/ (e.button = 0 /\ e.shiftKey) THEN "pan" ELSE "rotate"

handleMouseDown ==
    /\ ~dirty
    /\ cmds < MaxCmds
    /\ \E e \in MouseDowns : pointer' = modeOf(e)
    /\ lastOp' = Op("mousedown", "", 0)
    /\ UNCHANGED << joints, loadMass, isPlaying, isPlayingRef, timeRef, trajectory,
                    precisePos, reach, stressResults, jointTorques, dirty, ticks,
                    cmds, held >>
    /\ UNCHANGED << activeTab, camera, display, analysis, exported, mounts, frames >>

\* the setCamera updaters of handleMouseMove
drag(c, mode, dx, dy) ==
    IF mode = "rotate"
    THEN [c EXCEPT !.azim = @ - dx * (CamScale \div 2),
                   !.elev = Max(-89 * CamScale, Min(89 * CamScale, @ + dy * (CamScale \div 2)))]
    ELSE [c EXCEPT !.panX = @ + dx, !.panY = @ + dy]

\* onMouseMove: "if (!isDragging || !lastMousePos.current) return;" and then
\* the setCamera of the interaction mode
handleMouseMove ==
    /\ ~dirty
    /\ cmds < MaxCmds
    /\ IF pointer = "none"
       THEN /\ camera' = camera
            /\ lastOp' = Op("move", "none", 0)
            /\ UNCHANGED << dirty, cmds >>
       ELSE /\ \E m \in MouseMoves : camera' = drag(camera, pointer, m.dx, m.dy)
            /\ lastOp' = Op("drag", pointer, 0)
            /\ dirty' = TRUE
            /\ cmds' = cmds + 1
    /\ UNCHANGED << joints, loadMass, isPlaying, isPlayingRef, timeRef, trajectory,
                    precisePos, reach, stressResults, jointTorques, ticks, held >>
    /\ UNCHANGED << activeTab, pointer, display, analysis, exported, mounts, frames >>

\* onMouseUp and onMouseLeave
handleMouseUp ==
    /\ ~dirty
    /\ pointer # "none"
    /\ pointer' = "none"
    /\ lastOp' = Op("mouseup", "", 0)
    /\ UNCHANGED << joints, loadMass, isPlaying, isPlayingRef, timeRef, trajectory,
                    precisePos, reach, stressResults, jointTorques, dirty, ticks,
                    cmds, held >>
    /\ UNCHANGED << activeTab, camera, display, analysis, exported, mounts, frames >>

\* variant: the Joint Frames button resets the camera as well
pressControlResetting(d, c, b) ==
    IF b = "Stress Map" THEN [display |-> [d EXCEPT !.showStressMap = ~@], camera |-> c]
    ELSE IF b = "Joint Frames"
         THEN [display |-> [d EXCEPT !.showFrames = ~@], camera |-> InitialCamera]
    ELSE [display |-> d, camera |-> InitialCamera]

\* the three buttons under the payload slider: setShowStressMap(!showStressMap),
\* setShowFrames(!showFrames), setCamera({ azim: 45, elev: 20, scale: 300, ... })
pressControl(d, c, b) ==
    IF b = "Stress Map" THEN [display |-> [d EXCEPT !.showStressMap = ~@], camera |-> c]
    ELSE IF b = "Joint Frames"
         THEN [display |-> [d EXCEPT !.showFrames = ~@], camera |-> c]
    ELSE [display |-> d, camera |-> InitialCamera]

controlButton ==
    /\ ~dirty
    /\ cmds < MaxCmds
    /\ \E b \in ControlButtons : \E v \in {pressControl(display, camera, b)} :
          /\ display' = v.display
          /\ camera' = v.camera
          /\ lastOp' = Op("button", b, 0)
    /\ dirty' = TRUE
    /\ cmds' = cmds + 1
    /\ UNCHANGED << joints, loadMass, isPlaying, isPlayingRef, timeRef, trajectory,
                    precisePos, reach, stressResults, jointTorques, ticks, held >>
    /\ UNCHANGED << activeTab, pointer, analysis, exported, mounts, frames >>

\* frames explored where the camera is moved as well
MaxCameraTicks == MaxTicks - 2

TickCamera == TickWith({16}, MaxCameraTicks)

NextCamera ==
    \/ Evaluate
    \/ TickCamera
    \/ handleSliderChange
    \/ togglePlay
    \/ resetSimulation
    \/ setLoadMass
    \/ exportData
    \/ onWheel
    \/ handleMouseDown
    \/ handleMouseMove
    \/ handleMouseUp
    \/ controlButton

SpecCamera == Init /\ [][NextCamera]_vars

---------------------------------------------------------------------------
(* Tabs, mounting and unmounting, and the external analysis.                 *)
(* runAiAnalysis has no caller in KinematicSimulation and AnalysisView is    *)
(* not routed by App; the two handlers are taken as invoked from a button    *)
(* that is disabled while its request is pending, as the button of           *)
(* AnalysisView is.                                                          *)

MaxMounts == 2     \* times the Kinematics tab is opened

TabChoices == {"Overview", "Kinematics"}

\* App after construction: activeTab = Tab.OVERVIEW, nothing of the simulation exists
InitApp ==
    /\ joints = InitialJoints
    /\ loadMass = 50
    /\ isPlaying = FALSE
    /\ isPlayingRef = FALSE
    /\ timeRef = 0
    /\ trajectory = << >>
    /\ precisePos = << >>
    /\ reach = 0
    /\ stressResults = << >>
    /\ jointTorques = << >>
    /\ dirty = FALSE
    /\ ticks = 0
    /\ cmds = 0
    /\ held = [snap |-> Snapshot(InitialJoints), n |-> 0]
    /\ lastOp = Op("start", "", 0)
    /\ activeTab = "Overview"
    /\ camera = InitialCamera
    /\ pointer = "none"
    /\ display = InitialDisplay
    /\ frames = NoFrames
    /\ \E client \in Clients : analysis = InitialAnalysis(client)
    /\ exported = << >>
    /\ mounts = 0

\* <KinematicSimulation /> is mounted: every useState and useRef takes its
\* initial value, and the animation effect requests the first frame
mountSimulation ==
    /\ ~mounted
    /\ mounts < MaxMounts
    /\ activeTab' = "Kinematics"
    /\ joints' = InitialJoints
    /\ loadMass' = 50
    /\ isPlaying' = FALSE
    /\ isPlayingRef' = FALSE
    /\ timeRef' = 0
    /\ trajectory' = << >>
    /\ precisePos' = << >>
    /\ reach' = 0
    /\ stressResults' = << >>
    /\ jointTorques' = << >>
    /\ dirty' = TRUE
    /\ held' = [snap |-> Snapshot(InitialJoints), n |-> 0]
    /\ camera' = InitialCamera
    /\ pointer' = "none"
    /\ display' = InitialDisplay
    /\ frames' = requestAnimationFrame(frames)
    /\ analysis' = [analysis EXCEPT !.isSimulating = FALSE, !.aiInsight = ""]
    /\ mounts' = mounts + 1
    /\ lastOp' = Op("mount", "", mounts + 1)
    /\ UNCHANGED << ticks, cmds, exported >>

\* <KinematicSimulation /> is unmounted: the effect cleanups run,
\* return () => cancelAnimationFrame(animationFrameRef.current) among them;
\* the variables keep the last values of the instance that is gone
unmountSimulation ==
    /\ mounted
    /\ ~dirty
    /\ \E tab \in TabChoices \ {"Kinematics"} : activeTab' = tab
    /\ frames' = cancelAnimationFrame(frames, frames.ref)
    /\ lastOp' = Op("unmount", "", mounts)
    /\ UNCHANGED << joints, loadMass, isPlaying, isPlayingRef, timeRef, trajectory,
                    precisePos, reach, stressResults, jointTorques, dirty, ticks,
                    cmds, held >>
    /\ UNCHANGED << camera, pointer, display, analysis, exported, mounts >>

\* Navigation: onClick={() => setActiveTab(tab)}
setActiveTab == mountSimulation \/ unmountSimulation

\* the instance that started the insight call is the one on screen
insightLive == mounted /\ analysis.insightOwner = mounts

\* setIsSimulating(true); ... await generateSimulationInterpretation(metrics)
runAiAnalysis ==
    /\ mounted
    /\ ~dirty
    /\ cmds < MaxCmds
    /\ ~analysis.isSimulating
    /\ analysis.insightCall = "none"
    /\ analysis' = [analysis EXCEPT !.isSimulating = TRUE, !.insightCall = "pending",
                                    !.insightOwner = mounts]
    /\ lastOp' = Op("runAiAnalysis", "", 0)
    /\ cmds' = cmds + 1
    /\ UNCHANGED << joints, loadMass, isPlaying, isPlayingRef, timeRef, trajectory,
                    precisePos, reach, stressResults, jointTorques, dirty, ticks, held >>
    /\ UNCHANGED << activeTab, camera, pointer, display, exported, mounts, frames >>

\* variant: the flag is cleared only when the service answered
afterInsightAnswerOnly(a, r, live) ==
    IF r.state = "rejected" \/ ~live
    THEN [a EXCEPT !.insightCall = "none", !.last = r]
    ELSE [a EXCEPT !.insightCall = "none", !.last = r, !.aiInsight = r.value,
                   !.isSimulating = (r.value # ServiceText)]

\* the rest of runAiAnalysis after the await: setAiInsight(txt);
\* setIsSimulating(false).  A rejected promise throws at the await and the two
\* setters are not reached; on an unmounted instance they change nothing.
afterInsight(a, r, live) ==
    IF r.state = "rejected" \/ ~live
    THEN [a EXCEPT !.insightCall = "none", !.last = r]
    ELSE [a EXCEPT !.insightCall = "none", !.last = r, !.aiInsight = r.value,
                   !.isSimulating = FALSE]

\* the promise of generateSimulationInterpretation settles
resolveInsight ==
    /\ analysis.insightCall = "pending"
    /\ ~dirty
    /\ \E service \in ServiceOutcomes :
          /\ analysis' = afterInsight(analysis,
                            generateSimulationInterpretation(analysis.client, service),
                            insightLive)
          /\ lastOp' = Op("insight", service, IF insightLive THEN 1 ELSE 0)
    /\ UNCHANGED << joints, loadMass, isPlaying, isPlayingRef, timeRef, trajectory,
                    precisePos, reach, stressResults, jointTorques, dirty, ticks,
                    cmds, held >>
    /\ UNCHANGED << activeTab, camera, pointer, display, exported, mounts, frames >>

\* AnalysisView: setLoading(true); ... await analyzeRisk(fmeaContext);
\* the button is disabled={loading}
handleRiskAnalysis ==
    /\ ~dirty
    /\ cmds < MaxCmds
    /\ ~analysis.loading
    /\ analysis' = [analysis EXCEPT !.loading = TRUE, !.riskCall = "pending"]
    /\ lastOp' = Op("handleRiskAnalysis", "", 0)
    /\ cmds' = cmds + 1
    /\ UNCHANGED << joints, loadMass, isPlaying, isPlayingRef, timeRef, trajectory,
                    precisePos, reach, stressResults, jointTorques, dirty, ticks, held >>
    /\ UNCHANGED << activeTab, camera, pointer, display, exported, mounts, frames >>

\* the rest of handleRiskAnalysis after the await: setGeneratedRisk(result);
\* setLoading(false)
afterRisk(a, r) ==
    IF r.state = "rejected"
    THEN [a EXCEPT !.riskCall = "none", !.last = r]
    ELSE [a EXCEPT !.riskCall = "none", !.last = r, !.generatedRisk = r.value,
                   !.loading = FALSE]

\* the promise of analyzeRisk settles
resolveRisk ==
    /\ analysis.riskCall = "pending"
    /\ ~dirty
    /\ \E service \in ServiceOutcomes :
          /\ analysis' = afterRisk(analysis, analyzeRisk(analysis.client, service))
          /\ lastOp' = Op("risk", service, 1)
    /\ UNCHANGED << joints, loadMass, isPlaying, isPlayingRef, timeRef, trajectory,
                    precisePos, reach, stressResults, jointTorques, dirty, ticks,
                    cmds, held >>
    /\ UNCHANGED << activeTab, camera, pointer, display, exported, mounts, frames >>

\* frames explored while tabs are switched and requests are pending
MaxViewTicks == MaxTicks - 2

ViewDeltas == {5000}

TickView == TickWith(ViewDeltas, MaxViewTicks)

NextView ==
    \/ mounted /\ Evaluate
    \/ TickView
    \/ mounted /\ handleSliderChange
    \/ mounted /\ onWheel
    \/ setActiveTab
    \/ runAiAnalysis
    \/ resolveInsight
    \/ handleRiskAnalysis
    \/ resolveRisk

SpecView == InitApp /\ [][NextView]_vars

---------------------------------------------------------------------------
(* Moving joints and the JSON button: sliders, play/pause, frames, export.   *)

\* the frames of a slow page, in which a joint overshoots its limit
TickExport == TickWith(ViewDeltas, MaxTicks)

NextExport ==
    \/ Evaluate
    \/ TickExport
    \/ handleSliderChange
    \/ togglePlay
    \/ exportData

SpecExport == Init /\ [][NextExport]_vars

---------------------------------------------------------------------------
(* The integrator in floating point.  The fixed-point integers above cannot  *)
(* hold a joint that keeps growing, so this part carries angle, target and   *)
(* velocity as decimal floating-point numbers m * 10^e (in degrees and       *)
(* degrees per second) with seven significant digits, the range of an IEEE    *)
(* double, and its three values that are not finite.                         *)

F(m, e) == [kind |-> "finite", m |-> m, e |-> e]

PlusInfinity  == [kind |-> "inf", m |-> 1, e |-> 0]
MinusInfinity == [kind |-> "inf", m |-> -1, e |-> 0]
NaN           == [kind |-> "nan", m |-> 0, e |-> 0]

MantissaDigits == 7

\* Number.MAX_VALUE is 1.797693e308 = 1797693 * 10^302
MaxValueMantissa == 1797693
MaxValueExponent == 302

\* the smallest exponent kept; below it the number is 0
MinValueExponent == -330

tooLarge(m, e) ==
    e > MaxValueExponent \/ (e = MaxValueExponent /\ Abs(m) > MaxValueMantissa)

\* the double nearest to m * 10^e
RECURSIVE normalize(_, _)
normalize(m, e) ==
    IF m = 0 THEN F(0, 0)
    ELSE IF Abs(m) >= Pow10(MantissaDigits) THEN normalize(Rnd(m, 10), e + 1)
    ELSE IF Abs(m) < Pow10(MantissaDigits - 1) THEN normalize(m * 10, e - 1)
    ELSE IF tooLarge(m, e) THEN (IF m > 0 THEN PlusInfinity ELSE MinusInfinity)
    ELSE IF e < MinValueExponent THEN F(0, 0)
    ELSE F(m, e)

\* -a
fneg(a) == [a EXCEPT !.m = 0 - @]

\* hi + lo for two finite numbers with hi.e >= lo.e, one guard digit
addAligned(hi, lo) ==
    IF hi.e - lo.e > MantissaDigits + 1 THEN hi
    ELSE normalize(hi.m * 10 + Rnd(lo.m * 10, Pow10(hi.e - lo.e)), hi.e - 1)

\* a + b
fadd(a, b) ==
    IF a.kind = "nan" \/ b.kind = "nan" THEN NaN
    ELSE IF a.kind = "inf" THEN (IF b.kind = "inf" /\ b.m # a.m THEN NaN ELSE a)
    ELSE IF b.kind = "inf" THEN b
    ELSE IF a.m = 0 THEN b
    ELSE IF b.m = 0 THEN a
    ELSE IF a.e >= b.e THEN addAligned(a, b)
    ELSE addAligned(b, a)

\* a * k for an integer k with 0 < k <= 200
fmul(a, k) ==
    IF a.kind = "finite" THEN normalize(a.m * k, a.e) ELSE a

\* a / k for an integer k with 0 < k
fdiv(a, k) ==
    IF a.kind = "finite" THEN normalize(Rnd(a.m * 100, k), a.e - 2) ELSE a

\* a * 10^d
fshift(a, d) ==
    IF a.kind = "finite" /\ a.m # 0 THEN normalize(a.m, a.e + d) ELSE a

\* the number n / 100 (n in 1/100 degree)
fromHundredths(n) == normalize(n, -2)

\* one element of prevJoints.map((j, i) => ...), dt in ms
StepJointFloat(j, i, playing, t, dt) ==
    LET target       == IF playing /\ j.group # "Gripper"
                        THEN fromHundredths(AnimationTarget(
                                 [min |-> InitialJoints[i + 1].min,
                                  max |-> InitialJoints[i + 1].max], i, t))
                        ELSE j.targetAngle
        error        == fadd(target, fneg(j.angle))
        force        == fadd(fmul(error, stiffness), fneg(fmul(j.velocity, damping)))
        acceleration == fdiv(fmul(force, 2), Inertia2(j.group))
        newVelocity  == fadd(j.velocity, fshift(fmul(acceleration, dt), -3))
        newAngle     == fadd(j.angle, fshift(fmul(newVelocity, dt), -3))
    IN  [j EXCEPT !.angle = newAngle, !.velocity = newVelocity,
                  !.targetAngle = target]

AnimateJointsFloat(js, playing, t, delta) ==
    [i \in JointIdx |->
        StepJointFloat(js[i], i - 1, playing,
                       AdvanceTime(playing, t, ClampDt(delta)), ClampDt(delta))]

\* the joints with their numbers in floating point
floatJoints(js) ==
    [i \in JointIdx |->
        [js[i] EXCEPT !.angle = fromHundredths(@), !.targetAngle = fromHundredths(@),
                      !.velocity = fromHundredths(@),
                      !.min = fromHundredths(@), !.max = fromHundredths(@)]]

\* JSON.stringify of a number: mantissa and exponent, and null when not finite
floatToJSON(x) ==
    IF x.kind # "finite" THEN NullText
    ELSE signText(x.m) \o digitsOf(Abs(x.m)) \o << "e" >>
            \o signText(x.e) \o digitsOf(Abs(x.e))

signedValue(s) ==
    IF Head(s) = "-" THEN 0 - digitsValue(Tail(s), 0) ELSE digitsValue(s, 0)

\* JSON.parse of a number text; << >> stands for null
floatFromJSON(s) ==
    IF s = NullText THEN << >>
    ELSE \* the text holds exactly one "e"
         LET p == CHOOSE k \in 1..Len(s) : s[k] = "e"
         IN  << F(signedValue(SubSeq(s, 1, p - 1)), signedValue(SubSeq(s, p + 1, Len(s)))) >>

floatJointToJSON(j) ==
    [id |-> j.id, group |-> j.group, axis |-> j.axis,
     angle |-> floatToJSON(j.angle), targetAngle |-> floatToJSON(j.targetAngle),
     velocity |-> floatToJSON(j.velocity),
     min |-> floatToJSON(j.min), max |-> floatToJSON(j.max)]

floatJointFromJSON(t) ==
    [id |-> t.id, group |-> t.group, axis |-> t.axis,
     angle |-> floatFromJSON(t.angle), targetAngle |-> floatFromJSON(t.targetAngle),
     velocity |-> floatFromJSON(t.velocity),
     min |-> floatFromJSON(t.min), max |-> floatFromJSON(t.max)]

\* the exported file with the joints in floating point
exportFloat(js, pp, r, sr, jt, tr) ==
    [JSONparse(JSONstringify(<< >>, pp, r, sr, jt, tr)) EXCEPT
        !.configuration = [i \in DOMAIN js |-> floatJointFromJSON(floatJointToJSON(js[i]))]]

MaxDivergeTicks == 540     \* frames of the long slow run

SlowDeltas == {100}        \* ten frames per second

\* the view after mount and its evaluation, with the Wrist pitch slider moved
\* to its upper limit
InitSlow ==
    /\ joints = floatJoints(sliderJoints(InitialJoints, "j7_y", InitialJoints[8].max))
    /\ loadMass = 50
    /\ isPlaying = FALSE
    /\ isPlayingRef = FALSE
    /\ timeRef = 0
    /\ \E r \in {evaluation(InitialJoints, 50, << >>)} :
          /\ trajectory = r.trajectory
          /\ precisePos = r.precisePos
          /\ reach = r.reach
          /\ stressResults = r.stressResults
          /\ jointTorques = r.jointTorques
    /\ dirty = FALSE
    /\ ticks = 0
    /\ cmds = 1
    /\ held = [snap |-> Snapshot(InitialJoints), n |-> 0]
    /\ lastOp = Op("slider", "j7_y", InitialJoints[8].max)
    /\ MountedView("null")

\* 10^d modulo one turn (36000 in 1/100 degree)
RECURSIVE Pow10Turn(_)
Pow10Turn(d) == IF d = 0 THEN 1 ELSE (10 * Pow10Turn(d - 1)) % 36000

\* the finite angle x in 1/100 degree, reduced to one turn when it is large
hundredthsOf(x) ==
    IF x.e + 2 >= 0 THEN ((x.m % 36000) * Pow10Turn(x.e + 2)) % 36000
    ELSE IF x.e + 2 < 0 - MantissaDigits THEN 0
    ELSE Rnd(x.m, Pow10(0 - (x.e + 2)))

\* joints[0] .. joints[8]: the angles forward kinematics reads
RotaryIdx == 1..9

\* Math.cos and Math.sin of NaN and of an infinite angle are NaN
notFinite(js) == \E i \in RotaryIdx : js[i].angle.kind # "finite"

floatAngles(js) ==
    [i \in JointIdx |->
        IF js[i].angle.kind = "finite" THEN hundredthsOf(js[i].angle) ELSE 0]

\* NaN among the fixed-point numbers: not finite, and no comparison with it holds
NotANumber == Infinity + 1

NaNPoint == Vec(NotANumber, NotANumber, NotANumber)

\* the effect over a rotation matrix with NaN entries: the products carry NaN
\* into the end effector, the hand's centre of gravity and the three moments;
\* !NaN fills 0.1, and Math.abs(last.x - NaN) < 0.005 is false
effectNotFinite(prev) ==
    [ precisePos    |-> << NaNPoint >>,
      reach         |-> NotANumber,
      jointTorques  |-> [id \in JointIds |-> SmallTorque],
      stressResults |-> stressOf([id \in JointIds |-> SmallTorque]),
      trajectory    |-> LastN(Append(prev, NaNPoint), TrailMax),
      trailEvent    |-> IF Len(prev) >= TrailMax THEN 2 ELSE 1 ]

evaluationFloat(js, mass, prev) ==
    IF notFinite(js) THEN effectNotFinite(prev)
    ELSE effectOf(ForwardKinematics(floatAngles(js)), mass, prev)

\* the effect after a committed render, over the floating-point joints
EvaluateSlow ==
    /\ dirty
    /\ \E r \in {evaluationFloat(joints, loadMass, trajectory)} :
          /\ precisePos' = r.precisePos
          /\ reach' = r.reach
          /\ jointTorques' = r.jointTorques
          /\ stressResults' = r.stressResults
          /\ trajectory' = r.trajectory
          /\ lastOp' = Op("evaluate", "", r.trailEvent)
    /\ dirty' = FALSE
    /\ UNCHANGED << joints, loadMass, isPlaying, isPlayingRef, timeRef, ticks, cmds, held >>
    /\ UNCHANGED << viewVars, frames >>

\* one animation frame; the run is followed up to the export or the first
\* wheel gesture
TickSlow ==
    /\ ~dirty
    /\ ticks < MaxDivergeTicks
    /\ exported = << >>
    /\ camera = InitialCamera
    /\ \E id \in frames.pending : frames' = requestAnimationFrame(runFrame(frames, id))
    /\ \E delta \in SlowDeltas :
          /\ timeRef' = AdvanceTime(isPlayingRef, timeRef, ClampDt(delta))
          /\ joints' = AnimateJointsFloat(joints, isPlayingRef, timeRef, delta)
          /\ lastOp' = Op("tick", "", delta)
    /\ dirty' = TRUE
    /\ ticks' = ticks + 1
    /\ UNCHANGED << loadMass, isPlaying, isPlayingRef, trajectory, precisePos,
                    reach, stressResults, jointTorques, cmds, held >>
    /\ UNCHANGED viewVars

\* the JSON button
exportSlow ==
    /\ exported = << >>
    /\ camera = InitialCamera
    /\ exported' = << exportFloat(joints, precisePos, reach, stressResults,
                                  jointTorques, trajectory) >>
    /\ lastOp' = Op("export", "", 0)
    /\ cmds' = cmds + 1
    /\ UNCHANGED << joints, loadMass, isPlaying, isPlayingRef, timeRef, trajectory,
                    precisePos, reach, stressResults, jointTorques, dirty, ticks, held >>
    /\ UNCHANGED << activeTab, camera, pointer, display, analysis, mounts, frames >>

\* the first wheel gesture over the canvas
wheelSlow ==
    /\ camera = InitialCamera
    /\ exported = << >>
    /\ onWheel

NextSlow == TickSlow \/ EvaluateSlow \/ exportSlow \/ wheelSlow

SpecSlow == InitSlow /\ [][NextSlow]_vars

---------------------------------------------------------------------------
(* Properties                                                                *)

err(i) == joints[i].angle - joints[i].targetAngle

\* size of the disturbance at the moment the targets were last changed
disturbance(i) == Abs(held.snap[i].e0) + Abs(held.snap[i].v0)

\* C1: the integrator converges.  Necessary for it: once the targets have
\* been held for three frames, no joint is further from its target than the
\* whole disturbance it started with.
C1_Settles ==
    (~isPlayingRef /\ held.n >= 3) =>
        \A i \in JointIdx : Abs(err(i)) <= disturbance(i)

\* C2: with the targets held and every dt at most 0.1 s, error and velocity
\* stay below a constant determined by the state at the moment the targets
\* were fixed: here 20 times the disturbance for the error and 100 times
\* (per second) for the velocity.
C2_Bounded ==
    ~isPlayingRef =>
        \A i \in JointIdx :
            /\ Abs(err(i)) <= 20 * disturbance(i)
            /\ Abs(joints[i].velocity) <= 100 * disturbance(i)

\* C3: a frame whose wall-clock delta is at least 0.1 s produces exactly the
\* joints (angle, velocity, target) and the time advance of a frame whose
\* delta is 0.1 s.
C3_DtCapped ==
    [][(lastOp'.op = "tick" /\ lastOp'.arg >= DtCapMs) =>
          /\ joints' = AnimateJoints(joints, isPlayingRef, timeRef, DtCapMs)
          /\ timeRef' = AdvanceTime(isPlayingRef, timeRef, DtCapMs)]_vars

C3_Witness ==
    /\ lastOp.op = "tick"
    /\ lastOp.arg > DtCapMs
    /\ \E i \in JointIdx : joints[i].velocity # 0

AtResetPose(js) ==
    \A i \in JointIdx :
        /\ js[i].angle = (IF js[i].id \in {"j4", "j5"} THEN -18000
                          ELSE IF js[i].id = "j9" THEN 5000 ELSE 0)
        /\ js[i].targetAngle = js[i].angle
        /\ js[i].velocity = 0

\* C5: resetSimulation leaves every joint at its reset value (-180 for j4
\* and j5, 50 for j9, 0 otherwise) with angle = targetAngle and velocity 0 and
\* animate mode off, and a frame from that pose with animate mode off changes
\* no joint.
C5_ResetPose ==
    [][/\ lastOp'.op = "reset" =>
             AtResetPose(joints') /\ ~isPlaying' /\ ~isPlayingRef'
       /\ (AtResetPose(joints) /\ ~isPlaying /\ lastOp'.op = "tick") =>
             joints' = joints]_vars

\* a reset that acted on joints in motion
C5_Witness ==
    /\ lastOp.op = "reset"
    /\ lastOp.arg > 0

\* C6: the trajectory never holds more than 150 points, and a point appended
\* to a full trajectory drops the oldest and keeps the others in order.
C6_TrailBounded ==
    /\ [](Len(trajectory) <= TrailMax)
    /\ [][(Len(trajectory) = TrailMax /\ trajectory' # trajectory /\ trajectory' # << >>) =>
             /\ Len(trajectory') = TrailMax
             /\ SubSeq(trajectory', 1, TrailMax - 1) = Tail(trajectory)]_vars

\* an evaluation that appended to a full trajectory
C6_Witness ==
    /\ lastOp.op = "evaluate"
    /\ lastOp.arg = 2
    /\ Len(trajectory) = TrailMax

pivotPos(fk, id) ==
    IF id = "j2" THEN fk.frameJ2.pos
    ELSE IF id = "j5" THEN fk.frameJ5.pos
    ELSE fk.frameJ7Y.pos

pivotLoads(loads, id) ==
    IF id = "j2" THEN loads
    ELSE IF id = "j5" THEN SubSeq(loads, 2, 4)
    ELSE SubSeq(loads, 3, 4)

\* the summed moment vector at a pivot for a payload
momentAt(fk, id, mass) ==
    totalMoment(pivotPos(fk, id), pivotLoads(loadSet(fk, mass), id))

subVec(a, b) == Vec(a.x - b.x, a.y - b.y, a.z - b.z)

twice(a) == Vec(2 * a.x, 2 * a.y, 2 * a.z)

dot(a, b) == a.x * b.x + a.y * b.y + a.z * b.z

\* C7 as stated: doubling the payload doubles the moment magnitude reported
\* at j2, j5 and j7_y (for payloads whose double is still on the slider).
C7_Doubling ==
    (~dirty /\ loadMass > 0 /\ 2 * loadMass <= 100) =>
        \A fk \in {ForwardKinematics(Angles(joints))} :
            \A id \in PivotIds :
                torqueMap(fk, 2 * loadMass)[id] = 2 * jointTorques[id]

\* C7 amended: the moment is affine in the payload.  At every pivot the
\* payload's own contribution to the summed moment vector doubles when the
\* payload doubles; the links' contribution stays as it is.
C7_PayloadPartDoubles ==
    ~dirty =>
        \A fk \in {ForwardKinematics(Angles(joints))} :
            \A id \in PivotIds :
                subVec(momentAt(fk, id, 2 * loadMass), momentAt(fk, id, 0))
                    = twice(subVec(momentAt(fk, id, loadMass), momentAt(fk, id, 0)))

C7_Witness ==
    /\ lastOp.op = "evaluate"
    /\ loadMass > 0
    /\ jointTorques["j2"] > SmallTorque

safetyFactors(fk, mass) ==
    [k \in 1..3 |-> stressOf(torqueMap(fk, mass))[k].safetyFactor]

pivotOf(k) == IF k = 1 THEN "j2" ELSE IF k = 2 THEN "j5" ELSE "j7_y"

\* C8 as stated: a heavier payload never reports a larger safety factor.
C8_Monotone ==
    ~dirty =>
        \A fk \in {ForwardKinematics(Angles(joints))} :
            \A m2 \in EvalMasses :
                m2 >= loadMass =>
                    \A sf \in {safetyFactors(fk, m2)} :
                        \A k \in 1..3 : sf[k] <= stressResults[k].safetyFactor

\* the payload's moment at the pivot does not oppose the links' own moment
payloadAligned(fk, id) ==
    dot(momentNm(momentAt(fk, id, 0)),
        momentNm(subVec(momentAt(fk, id, 100), momentAt(fk, id, 0)))) >= 0

\* C8 amended: a heavier payload never reports a larger safety factor at a
\* pivot where the payload's moment does not oppose the moment of the
\* links' own weight.
C8_MonotoneWhenAligned ==
    ~dirty =>
        \A fk \in {ForwardKinematics(Angles(joints))} :
            \A m2 \in EvalMasses :
                m2 >= loadMass =>
                    \A sf \in {safetyFactors(fk, m2)} :
                        \A k \in 1..3 :
                            payloadAligned(fk, pivotOf(k)) =>
                                sf[k] <= stressResults[k].safetyFactor

C8_Witness ==
    /\ lastOp.op = "evaluate"
    /\ loadMass = 0
    /\ \E fk \in {ForwardKinematics(Angles(joints))} :
          /\ payloadAligned(fk, "j5")
          /\ safetyFactors(fk, 100)[2] < stressResults[2].safetyFactor

\* C9: every stress result of an evaluation has a positive stress, a finite
\* safety factor and a hue between 0 and 240.
C9_FiniteSafetyFactor ==
    ~dirty =>
        \A k \in 1..Len(stressResults) :
            /\ stressResults[k].stressMPa > 0
            /\ stressResults[k].safetyFactor > 0
            /\ stressResults[k].safetyFactor < Infinity
            /\ stressResults[k].color \in 0..24000

\* an evaluation of a pose in which the net moment at every pivot is zero
C9_Witness ==
    /\ lastOp.op = "evaluate"
    /\ \E m \in {pivotMoments(ForwardKinematics(Angles(joints)), loadMass)} :
          m.j2 = 0 /\ m.j5 = 0 /\ m.j7_y = 0

ZeroPose ==
    \A i \in 1..9 : joints[i].angle = 0

\* C10: with the nine rotational joints at zero the end effector is at
\* (0.9, 0, 0) m, reported as (900.00, 0.00, 0.00) mm, and the reach is 0.9 m.
C10_ZeroPose ==
    (~dirty /\ ZeroPose) =>
        /\ precisePos = << [x |-> 90000, y |-> 0, z |-> 0] >>
        /\ reach = 9000
        /\ trajectory = << Vec(9000, 0, 0) >>

C10_Witness ==
    /\ lastOp.op = "evaluate"
    /\ ZeroPose
    /\ reach > 0

---------------------------------------------------------------------------
(* C11: order of the rotations                                               *)

\* the factors of the chain with the first two exchanged: Y, Z, X, translate, ...
exchangeFirstTwo(ms) == << ms[2], ms[1] >> \o SubSeq(ms, 3, Len(ms))

\* where the upper arm and the hand end when the chain is multiplied as ms
linkEnds(P) == [upper |-> extractFrame(P[5], 0).pos, hand |-> extractFrame(P[13], 0).pos]

endsInOrder(ms) == linkEnds(chain(ms, identity, 1))

shoulderTriple(js) == << js[1].angle, js[2].angle, js[3].angle >>

\* C11: with the shoulder triple at (90, 90, 0) degrees the product
\* rotateZ * rotateY * rotateX that the evaluation builds differs from
\* rotateY * rotateZ * rotateX with the same angles: the upper arm that is
\* translated next ends at a different position (and so does the hand), and the
\* position the evaluation stored is the one of the Z, Y, X order.
C11_OrderSensitive ==
    (~dirty /\ shoulderTriple(joints) = << 9000, 9000, 0 >>) =>
        \A zyx \in {endsInOrder(transforms(Angles(joints)))} :
        \A yzx \in {endsInOrder(exchangeFirstTwo(transforms(Angles(joints))))} :
            /\ zyx.upper # yzx.upper
            /\ zyx.hand # yzx.hand
            /\ precisePos = << precisePosOf(zyx.hand) >>
            /\ zyx.upper = Vec(0, 0, -LINKS.UPPER.length)
            /\ yzx.upper = Vec(0, LINKS.UPPER.length, 0)

C11_Witness ==
    /\ ~dirty
    /\ lastOp.op = "evaluate"
    /\ shoulderTriple(joints) = << 9000, 9000, 0 >>
    /\ precisePos # << >>

---------------------------------------------------------------------------
(* C12: the targets stay inside the joint ranges                             *)

\* C12: in every reachable state every joint's targetAngle lies in [min, max]:
\* the sliders hand in values of their own range, the reset values lie inside
\* it, and the sinusoid of animate mode stays within 0.15 of the range around
\* the centre.
C12_TargetInRange ==
    \A i \in JointIdx :
        /\ joints[i].min <= joints[i].targetAngle
        /\ joints[i].targetAngle <= joints[i].max

\* a frame of animate mode has overwritten the targets while the Gripper's
\* target sits on the slider's upper limit
C12_Witness ==
    /\ lastOp.op = "tick"
    /\ isPlayingRef
    /\ joints[10].targetAngle = joints[10].max
    /\ \E i \in 1..9 : joints[i].targetAngle # InitialJoints[i].targetAngle

---------------------------------------------------------------------------
(* C13: the angle is not clamped                                             *)

outOfRange(j) == j.angle < j.min \/ j.angle > j.max

targetsInRange(js) ==
    \A i \in JointIdx : js[i].min <= js[i].targetAngle /\ js[i].targetAngle <= js[i].max

\* the joints of the exported file, as numbers
exportedJoints ==
    [i \in JointIdx |-> [angle       |-> exported[1].configuration[i].angle,
                         targetAngle |-> exported[1].configuration[i].targetAngle,
                         velocity    |-> exported[1].configuration[i].velocity]]

liveJoints ==
    [i \in JointIdx |-> [angle       |-> << joints[i].angle >>,
                         targetAngle |-> << joints[i].targetAngle >>,
                         velocity    |-> << joints[i].velocity >>]]

\* C13: the range is enforced at the slider only.  When a joint's angle lies
\* outside [min, max] (all targets being inside), the evaluation has computed
\* the end effector from the angles as they are, and a file exported from that
\* state holds the angles as they are.
C13_AngleReadAsIs ==
    (~dirty /\ targetsInRange(joints) /\ \E i \in JointIdx : outOfRange(joints[i])) =>
        /\ precisePos =
             << precisePosOf(ForwardKinematics([i \in JointIdx |-> joints[i].angle])
                                .endEffectorFrame.pos) >>
        /\ lastOp.op = "export" => exportedJoints = liveJoints

\* the Shoulder pitch has overshot its upper limit on the way to a target on
\* that limit, and the state was exported
C13_Witness ==
    /\ ~dirty
    /\ lastOp.op = "export"
    /\ targetsInRange(joints)
    /\ joints[2].targetAngle = joints[2].max
    /\ joints[2].angle > joints[2].max
    /\ exportedJoints[2].angle = << joints[2].angle >>

---------------------------------------------------------------------------
(* C18: what moves the camera                                                *)

CameraGestures == {"wheel", "drag"}

\* C18 as stated: the five camera fields change only in a wheel or a drag step.
C18_GesturesOnly ==
    [][camera' # camera => lastOp'.op \in CameraGestures]_vars

\* C18: the five camera fields change only in a wheel step, a drag step or a
\* press of the Reset Camera button; frames, slider and payload changes,
\* play/pause, resetSimulation, export, the display toggles and the evaluation
\* leave them as they are.
C18_GesturesAndResetCamera ==
    [][camera' # camera =>
          \/ lastOp'.op \in CameraGestures
          \/ lastOp'.op = "button" /\ lastOp'.id = "Reset Camera"]_vars

\* resetSimulation has run on a view whose camera was moved, and the camera is
\* still where the gesture left it
C18_Witness ==
    /\ lastOp.op = "reset"
    /\ camera # InitialCamera

---------------------------------------------------------------------------
(* C14: the analysis calls never reject                                      *)

\* the text a call must resolve to, by function, client and service behaviour
expectedText(op, client, service) ==
    IF client = "null" THEN (IF op = "risk" THEN RiskFallback ELSE InsightFallback)
    ELSE IF service = "throws" THEN (IF op = "risk" THEN RiskError ELSE InsightError)
    ELSE ServiceText

\* C14: whenever a call of analyzeRisk or generateSimulationInterpretation has
\* settled, it is fulfilled with a string and not rejected: without a client it
\* is the fixed fallback text and the service was not contacted; with a client
\* whose call threw it is the fixed error text; otherwise the service's text.
C14_NeverRejects ==
    lastOp.op \in {"insight", "risk"} =>
        /\ analysis.last.state = "fulfilled"
        /\ analysis.last.value = expectedText(lastOp.op, analysis.client, lastOp.id)
        /\ analysis.last.contacted <=> analysis.client # "null"

\* analyzeRisk has settled after the service call threw
C14_Witness ==
    /\ lastOp.op = "risk"
    /\ lastOp.id = "throws"
    /\ analysis.client = "client"
    /\ analysis.generatedRisk = RiskError

---------------------------------------------------------------------------
(* C15: a pending request and the animation loop                             *)

---------------------------------------------------------------------------
(* C16: unmounting cancels the pending frame                                 *)

\* C16: while the simulation is mounted exactly one frame callback is pending,
\* the one whose id is in animationFrameRef; after the unmount none is pending,
\* and no step taken while it is unmounted executes a frame or changes the
\* joints.
C16_FrameCancelledOnUnmount ==
    /\ [](mounted => frames.pending = {frames.ref})
    /\ [](~mounted => frames.pending = {})
    /\ [][~mounted => (ticks' = ticks /\ (~mounted' => joints' = joints))]_vars

\* the view was unmounted after at least one frame had run
C16_Witness ==
    /\ lastOp.op = "unmount"
    /\ ticks > 0
    /\ frames.ref > 1
    /\ frames.pending = {}

---------------------------------------------------------------------------
(* C17: unmounting and a pending request                                     *)

\* C17: when the simulation view is not mounted no analysis request of it is
\* in flight (the unmount has cancelled it).
C17_CancelledOnUnmount ==
    ~mounted => analysis.insightCall = "none"

---------------------------------------------------------------------------
(* C20: state across a tab switch                                            *)

\* C20: when the Kinematics tab is opened again, the joints and the camera are
\* the ones the view had when it was left, and so is a trajectory that had
\* grown beyond its first point.
C20_StateSurvivesTabSwitch ==
    [][(lastOp'.op = "mount" /\ mounts >= 1) =>
          /\ joints' = joints
          /\ camera' = camera
          /\ Len(trajectory) > 1 => trajectory' = trajectory]_vars

---------------------------------------------------------------------------
(* C19: export round trip                                                    *)

\* the three numbers of every stress entry of the exported file
exportedStress ==
    [k \in DOMAIN exported[1].stressData |->
        [torqueStatic |-> exported[1].stressData[k].torqueStatic,
         stressMPa    |-> exported[1].stressData[k].stressMPa,
         safetyFactor |-> exported[1].stressData[k].safetyFactor]]

liveStress ==
    [k \in DOMAIN stressResults |->
        [torqueStatic |-> << stressResults[k].torqueStatic >>,
         stressMPa    |-> << stressResults[k].stressMPa >>,
         safetyFactor |-> << stressResults[k].safetyFactor >>]]

\* C19: the file just exported, parsed back, holds for every joint the angle,
\* targetAngle and velocity of the state and for every stress entry its
\* torqueStatic, stressMPa and safetyFactor; none of them is null.
C19_RoundTrip ==
    lastOp.op = "export" => (exportedJoints = liveJoints /\ exportedStress = liveStress)

---------------------------------------------------------------------------
(* C21: worst case of the README                                             *)

\* the actuator limit of a group, in 1/100 N.m
getMaxTorque(group) ==
    IF group = "Shoulder" THEN 12000
    ELSE IF group = "Elbow" THEN 6000
    ELSE IF group = "Wrist" THEN 2000
    ELSE 1000

\* the arm fully extended along x with the payload of the README
worstCase ==
    /\ ~dirty
    /\ AtResetPose(joints)
    /\ loadMass = 50
    /\ reach = 9000

\* C21: with 5 kg held horizontally at the full reach of 0.9 m the static
\* moment reported at the shoulder pitch joint is below 60 N.m, and the
\* 120 N.m limit of the shoulder is more than twice that moment.
C21_WorstCaseMoment ==
    worstCase =>
        /\ jointTorques["j2"] < 6000
        /\ getMaxTorque("Shoulder") > 2 * jointTorques["j2"]

---------------------------------------------------------------------------
(* C22: the spring-damper step                                               *)

\* twice the inertia the step is said to use
statedInertia2(group) ==
    CASE group = "Shoulder" -> 5
      [] group = "Elbow"    -> 3
      [] group = "Wrist"    -> 1
      [] OTHER              -> 2

\* (stiffness * error - damping * velocity) * dt, in 1/100 degree/s * ms * 1/2
\* after the division by 5 that keeps it a whole number
springImpulse(target, j, dt) ==
    ((2 * (stiffness * (target - j.angle) - damping * j.velocity)) \div 10) * dt

\* new is old after one step of dt ms, to the rounding of the last digit
steppedBy(old, new, dt) ==
    /\ Abs(100 * statedInertia2(old.group) * (new.velocity - old.velocity)
             - springImpulse(new.targetAngle, old, dt)) <= 50 * statedInertia2(old.group)
    /\ Abs(1000 * (new.angle - old.angle) - new.velocity * dt) <= 500
    /\ [new EXCEPT !.angle = 0, !.velocity = 0, !.targetAngle = 0]
          = [old EXCEPT !.angle = 0, !.velocity = 0, !.targetAngle = 0]

\* C22: a tick with clamped step dt gives every joint
\* velocity' = velocity + ((120 (target - angle) - 15 velocity) / inertia) dt
\* and then angle' = angle + velocity' dt with the new velocity, inertia
\* 2.5 / 1.5 / 0.5 / 1.0 by group, and changes no other field than angle,
\* velocity and targetAngle.
C22_SpringDamperStep ==
    [][(lastOp'.op = "tick" /\ ticks' = ticks + 1) =>
          \A i \in JointIdx :
              steppedBy(joints[i], joints'[i], Min(lastOp'.arg, 100))]_vars

\* the first frame after a slider move: the joint that was at rest has
\* gained velocity and has already moved
C22_Witness ==
    /\ lastOp.op = "tick"
    /\ ticks = 1
    /\ ~isPlaying
    /\ \E i \in JointIdx :
          /\ joints[i].targetAngle # InitialJoints[i].targetAngle
          /\ joints[i].velocity # 0
          /\ joints[i].angle # InitialJoints[i].angle

---------------------------------------------------------------------------
(* C23: the animation override                                               *)

tickStep == lastOp'.op = "tick" /\ ticks' = ticks + 1

\* C23: in animate mode every tick writes the sinusoid of the advanced
\* animation time over the targetAngle of every joint outside the Gripper,
\* whatever a slider had put there; no tick changes the Gripper's
\* targetAngle, which changes only in a slider or reset step.
C23_AnimationOverwritesTarget ==
    [][/\ (tickStep /\ isPlayingRef) =>
             \A i \in JointIdx :
                 joints[i].group # "Gripper" =>
                     joints'[i].targetAngle = AnimationTarget(joints[i], i - 1, timeRef')
       /\ \A i \in JointIdx :
             (joints[i].group = "Gripper"
                 /\ joints'[i].targetAngle # joints[i].targetAngle)
             => lastOp'.op \in {"slider", "reset"}]_vars

\* a frame in animate mode after the sliders of the session: the Gripper
\* keeps the slider target, the other joints carry the sinusoid
C23_Witness ==
    /\ lastOp.op = "tick"
    /\ isPlayingRef
    /\ cmds = 2
    /\ joints[10].targetAngle = joints[10].max
    /\ \A i \in 1..9 : joints[i].targetAngle # joints[i].max

---------------------------------------------------------------------------
(* C24: a slider writes the target only                                      *)

\* C24: a slider step sets the targetAngle of its joint to its value and
\* changes nothing else in joints; afterwards the targetAngle of a joint
\* changes only in a slider step on that joint, a reset, or a tick in animate
\* mode, so with animate mode off it stays across ticks.
C24_SliderWritesTargetOnly ==
    [][/\ (lastOp'.op = "slider" /\ cmds' = cmds + 1) =>
             \E k \in JointIdx :
                 /\ joints[k].id = lastOp'.id
                 /\ joints' = [joints EXCEPT ![k].targetAngle = lastOp'.arg]
       /\ \A i \in JointIdx :
             joints'[i].targetAngle # joints[i].targetAngle =>
                 \/ lastOp'.op = "slider" /\ lastOp'.id = joints[i].id
                 \/ lastOp'.op = "reset"
                 \/ lastOp'.op = "tick" /\ isPlayingRef]_vars

\* two frames after a slider move with animate mode off: the joint is on its
\* way and the target is still the slider value
C24_Witness ==
    /\ lastOp.op = "tick"
    /\ ~isPlayingRef
    /\ ticks >= 2
    /\ \E k \in SliderJoints :
          /\ joints[k].targetAngle = joints[k].max
          /\ joints[k].velocity # 0
          /\ joints[k].angle # joints[k].targetAngle

---------------------------------------------------------------------------
(* C25: the torque reported at the pivots                                    *)

\* C25: after an evaluation the torque of j2, j5 and j7_y in jointTorques
\* and in the stress results is the magnitude of the summed moment computed
\* at that pivot, a magnitude of 0 included, and every other joint carries
\* the placeholder 0.1.
C25_PivotTorqueIsMoment ==
    ~dirty =>
        \A m \in {pivotMoments(ForwardKinematics(Angles(joints)), loadMass)} :
            /\ \A id \in PivotIds : jointTorques[id] = m[id]
            /\ \A k \in 1..3 : stressResults[k].torqueStatic = m[pivotOf(k)]
            /\ \A id \in JointIds \ PivotIds : jointTorques[id] = SmallTorque

---------------------------------------------------------------------------
(* C26: consistency of an export                                             *)

\* the file that holds the joints of the state with the metrics computed from
\* these joints and the payload
consistentFile ==
    LET r == evaluation(joints, loadMass, trajectory)
    IN  JSONparse(JSONstringify(joints, r.precisePos, r.reach, r.stressResults,
                                r.jointTorques, trajectory))

\* C26: the endEffector, reach, stressData and torques of the file just
\* exported are those computed from the joint angles of the same file and
\* the payload.
C26_SnapshotConsistent ==
    lastOp.op = "export" =>
        \A f \in {consistentFile} :
            /\ exported[1].configuration = f.configuration
            /\ exported[1].endEffector = f.endEffector
            /\ exported[1].reach = f.reach
            /\ exported[1].stressData = f.stressData
            /\ exported[1].torques = f.torques

---------------------------------------------------------------------------
(* C27: the targets after a pause                                            *)

\* C27: the pause itself leaves every joint and the animation time as they
\* are, so the targets are those the last frame of animate mode wrote, and no
\* frame with animate mode off changes a targetAngle.
C27_PauseKeepsAnimatedTarget ==
    [][/\ lastOp'.op = "pause" => (joints' = joints /\ timeRef' = timeRef)
       /\ (tickStep /\ ~isPlaying) =>
             \A i \in JointIdx : joints'[i].targetAngle = joints[i].targetAngle]_vars

\* a frame after the pause: the joints outside the Gripper still aim at the
\* sinusoid of the frozen animation time, not at their targets before play
C27_Witness ==
    /\ lastOp.op = "tick"
    /\ ~isPlaying
    /\ timeRef > 0
    /\ \A i \in 1..9 :
          joints[i].targetAngle = AnimationTarget(joints[i], i - 1, timeRef)
    /\ \E i \in 1..9 : joints[i].targetAngle # InitialJoints[i].targetAngle

---------------------------------------------------------------------------
(* C28: evaluations that follow no joint movement                            *)

\* the operations that re-run the evaluation without touching the joints
ViewOps == {"wheel", "drag", "load", "button"}

\* C28: the evaluation that follows a wheel gesture, a drag, a payload change
\* or a display button leaves a non-empty trajectory as it is.
C28_ViewOpsKeepTrajectory ==
    [][(lastOp.op \in ViewOps /\ lastOp'.op = "evaluate" /\ trajectory # << >>)
          => trajectory' = trajectory]_vars

---------------------------------------------------------------------------
(* C29: what the trajectory records                                          *)

\* the two points are at least 5 mm apart in x, y or z
movedApart(a, b) ==
    \/ Abs(a.x - b.x) >= MoveEps
    \/ Abs(a.y - b.y) >= MoveEps
    \/ Abs(a.z - b.z) >= MoveEps

\* C29: an evaluation whose end-effector position is at least 5 mm away from
\* the last point of the trajectory in x, y or z appends that position.
C29_SignificantMoveRecorded ==
    [][(lastOp'.op = "evaluate" /\ dirty /\ trajectory # << >>) =>
          \A ee \in {ForwardKinematics(Angles(joints)).endEffectorFrame.pos} :
              movedApart(ee, trajectory[Len(trajectory)]) =>
                  trajectory' = LastN(Append(trajectory, ee), TrailMax)]_vars

---------------------------------------------------------------------------
(* C30: limits of the camera                                                 *)

cameraInLimits ==
    /\ camera.elev >= -89 * CamScale
    /\ camera.elev <= 89 * CamScale
    /\ camera.scale >= 50 * CamScale
    /\ camera.scale <= 3000 * CamScale

=============================================================================
